---- MODULE Spec2Model ----
(***************************************************************************)
(* Cross-dataset training pipeline of NeuroFeel (src/cross_dataset):       *)
(* class balancing, the bidirectional trainer with its adaptation-method   *)
(* dispatch, and the threshold search of the evaluator.                    *)
(*                                                                         *)
(* Feature matrices are abstracted to their provenance (a string term      *)
(* naming the operations that produced them) and to their class counts     *)
(* <<count of label 0, count of label 1>>.  Wherever a library routine may  *)
(* raise depending on the data (a resampler, PCA, the matrix square root),  *)
(* the outcome is an input drawn in Init, so that a run is a deterministic  *)
(* function of its inputs, as the seeded library calls are.                 *)
(***************************************************************************)
EXTENDS Integers, Sequences, FiniteSets, TLC

VARIABLES
    balArgs,            \* arguments of the apply_class_balancing call under study
    balRet,             \* its outcome, NoCall before the call
    thrArgs,            \* arguments of find_optimal_threshold
    thrIdx,             \* position of its for loop in DECISION_THRESHOLDS
    best_score,         \* find_optimal_threshold's local
    best_threshold,     \* find_optimal_threshold's local
    entry,              \* how the caller reached the trainer: cli, framework, direct
    selector,           \* the adaptation method the caller selected
    adaptation_method,  \* the value as it flows through main -> framework -> trainer
    mainpc,             \* position of the calling code
    labels,             \* class counts of each dataset's label vector
    oracle,             \* per direction: which library calls raise on this data
    pc,                 \* per direction: position inside the trainer
    loc,                \* per direction: the trainer's local variables (object references)
    heap,               \* object id -> value (provenance term)
    calls,              \* per direction: the alignment routines called, in order
    reads,              \* per direction: objects read
    writes,             \* per direction: objects created or mutated
    out,                \* per direction: the returned (model, scaler, info) bundle
    fits,               \* per direction: the estimator fits performed, in order
    evals,              \* the evaluation and prediction calls made after training
    alnArgs,            \* arguments of the domain_adaptation call under study
    alnRet,             \* its outcome, NoCall before the call
    argv,               \* the command line of main.py and the state of the data
    args,               \* the argparse namespace
    fw,                 \* the CrossDatasetFramework object and its running method
    savepc,             \* position of main / train_cross_dataset_models
    swArgs,             \* class counts of the labels given to create_sample_weights
    swRet               \* its outcome

balVars == <<balArgs, balRet>>
thrVars == <<thrArgs, thrIdx, best_score, best_threshold>>
trainVars == <<entry, selector, adaptation_method, mainpc, labels, oracle, pc, loc,
               heap, calls, reads, writes, out, fits, evals>>
alnVars == <<alnArgs, alnRet>>
saveVars == <<argv, args, fw, savepc>>
swVars == <<swArgs, swRet>>
vars == <<balArgs, balRet, thrArgs, thrIdx, best_score, best_threshold,
          entry, selector, adaptation_method, mainpc, labels, oracle, pc, loc,
          heap, calls, reads, writes, out, fits, evals, alnArgs, alnRet,
          argv, args, fw, savepc, swArgs, swRet>>

(***************************************************************************)
(* Bounds of the model.                                                    *)
(***************************************************************************)
MaxCount == 10
MaxF1 == 2
MaxEnnRemoved == 2
MaxLen == 3

\* Python's None
NoneVal == "None"

Min2(a, b) == IF a <= b THEN a ELSE b
Max2(a, b) == IF a >= b THEN a ELSE b

\* exact fractions <<numerator, denominator>>; a denominator 0 is numpy's inf
FracAdd(p, q) == <<p[1] * q[2] + q[1] * p[2], p[2] * q[2]>>
FracMul(p, q) == <<p[1] * q[1], p[2] * q[2]>>
FracEq(p, q) == p[1] * q[2] = q[1] * p[2]
FracOfInt(n) == <<n, 1>>

(***************************************************************************)
(* cross_dataset/config.py                                                 *)
(***************************************************************************)
\* CLASS_BALANCE_THRESHOLD = 0.7, kept as the exact ratio 7/10
CLASS_BALANCE_THRESHOLD_NUM == 7
CLASS_BALANCE_THRESHOLD_DEN == 10
CLASS_BALANCE_METHOD == "SMOTE"
\* SAMPLING_STRATEGY = 0.8 = 4/5
SAMPLING_STRATEGY_NUM == 4
SAMPLING_STRATEGY_DEN == 5
\* CV_TEST_SIZE = 0.2 = 1/5
CV_TEST_SIZE_DEN == 5
DEFAULT_ADAPTATION_METHOD == "ensemble"

(***************************************************************************)
(* models/balancing.py                                                     *)
(***************************************************************************)
Count(c) == c[1] + c[2]
\* len(np.bincount(y)): one slot per label up to the largest label present
BincountLen(c) == IF c[2] > 0 THEN 2 ELSE IF c[1] > 0 THEN 1 ELSE 0
Minority(c) == Min2(c[1], c[2])
Majority(c) == Max2(c[1], c[2])

\* faulty variant: the boundary ratio 0.7 itself counts as imbalanced
BelowThresholdOrEqual(mn, mx) ==
    mn * CLASS_BALANCE_THRESHOLD_DEN <= CLASS_BALANCE_THRESHOLD_NUM * mx
\* the comparison of line 40, on exact ratios: min/max < 0.7
BelowThreshold(mn, mx) ==
    mn * CLASS_BALANCE_THRESHOLD_DEN < CLASS_BALANCE_THRESHOLD_NUM * mx

\* check_class_imbalance(y) -> needs_balancing
check_class_imbalance(c) ==
    IF BincountLen(c) < 2
    THEN FALSE
    ELSE BelowThreshold(Minority(c), Majority(c))

\* the three resamplers the module constructs
SMOTE == "SMOTE"
ADASYN == "ADASYN"
SMOTEENN == "SMOTEENN"
Candidates == <<SMOTE, ADASYN, SMOTEENN>>
BalanceMethods == {SMOTE, ADASYN, SMOTEENN, "auto", "bogus"}

\* samples a float sampling_strategy asks an over-sampler to add
ToGenerate(c) ==
    (SAMPLING_STRATEGY_NUM * Majority(c)) \div SAMPLING_STRATEGY_DEN - Minority(c)

\* fit_resample raises: the data-dependent failures (too few neighbours, ...)
\* are the oracle bit; a missing class and a ratio that asks to remove
\* samples always raise
FitResampleRaises(name, c, bit) ==
    \/ bit
    \/ Minority(c) = 0
    \/ name # SMOTEENN /\ ToGenerate(c) <= 0

\* class counts after a successful fit_resample
FitResample(name, c, enn) ==
    IF name = SMOTEENN
    THEN \* SMOTE to 1:1, then edited-nearest-neighbours cleaning removes samples
         LET m == Max2(Majority(c) - enn, 0) IN <<m, m>>
    ELSE \* the minority class is raised to 0.8 of the majority
         LET t == (SAMPLING_STRATEGY_NUM * Majority(c)) \div SAMPLING_STRATEGY_DEN
         IN  IF c[1] <= c[2] THEN <<t, c[2]>> ELSE <<c[1], t>>

\* train_test_split(X, y, test_size=0.2, stratify=y): sizes of the two parts
NTest(n) == (n + CV_TEST_SIZE_DEN - 1) \div CV_TEST_SIZE_DEN
NTrain(n) == n - NTest(n)
NClasses(c) == (IF c[1] > 0 THEN 1 ELSE 0) + (IF c[2] > 0 THEN 1 ELSE 0)
MinPresent(c) ==
    IF c[1] = 0 THEN c[2] ELSE IF c[2] = 0 THEN c[1] ELSE Minority(c)
SplitRaises(c) ==
    \/ MinPresent(c) < 2
    \/ NTest(Count(c)) < NClasses(c)
    \/ NTrain(Count(c)) < NClasses(c)
\* class counts of the training part: proportional, the odd sample going to
\* the class with the larger remainder, to class tie when the remainders tie
TrainSplit(c, tie) ==
    LET n == Count(c)
        nt == NTrain(n)
        f0 == (c[1] * nt) \div n
        f1 == (c[2] * nt) \div n
        r0 == (c[1] * nt) % n
        r1 == (c[2] * nt) % n
        extra == nt - f0 - f1
        to0 == IF r0 > r1 THEN TRUE ELSE IF r1 > r0 THEN FALSE ELSE tie = 1
    IN  IF extra = 0 THEN <<f0, f1>>
        ELSE IF to0 THEN <<f0 + 1, f1>> ELSE <<f0, f1 + 1>>

\* one pass of the for loop of select_best_resampling_method (lines 76-97);
\* o.cand[i] is candidate i's outcome on the training part: -1 when
\* something inside the try raises, else the validation F1
TryCandidate(best, i, t, o) ==
    LET name == Candidates[i]
        raises == FitResampleRaises(name, t, o.cand[i] = -1)
        f1 == o.cand[i]
    IN  IF raises THEN [best EXCEPT !.tried = Append(@, name)]
        ELSE IF f1 > best.f1
             THEN [name |-> name, f1 |-> f1, counts |-> FitResample(name, t, o.enn),
                   tried |-> Append(best.tried, name)]
             ELSE [best EXCEPT !.tried = Append(@, name)]

RECURSIVE SelectLoop(_, _, _, _)
SelectLoop(best, i, t, o) ==
    IF i > Len(Candidates) THEN best
    ELSE SelectLoop(TryCandidate(best, i, t, o), i + 1, t, o)

\* select_best_resampling_method(X, y): the split of line 66 is outside any
\* try, so its exception is the function's
select_best_resampling_method(c, o) ==
    IF SplitRaises(c)
    THEN [raised |-> TRUE, name |-> NoneVal, f1 |-> 0, counts |-> <<0, 0>>,
          tried |-> <<>>]
    ELSE LET best == SelectLoop([name |-> NoneVal, f1 |-> 0, counts |-> <<0, 0>>,
                                 tried |-> <<>>], 1, TrainSplit(c, o.tie), o)
         IN  [raised |-> FALSE, name |-> best.name, f1 |-> best.f1,
              counts |-> best.counts, tried |-> best.tried]

\* lines 138-155: the named method, SMOTE for an unknown name
NamedResampler(method) ==
    IF method \in {SMOTE, ADASYN, SMOTEENN} THEN method ELSE SMOTE

\* the outcome of apply_class_balancing:
\*   ret      "X": the arrays it was given; "full": the full data resampled;
\*            "cv": the best cross-validation result; "raise": an exception
\*   counts   class counts of the returned y
\*   by       the resampler whose output is returned, None for "X"
\*   tried    the fit_resample calls on the training part, in order
\*   full     the fit_resample calls on the full data, in order
\*   selected the strategy select_best_resampling_method returned
BalOut(ret, counts, by, tried, full, selected) ==
    [ret |-> ret, counts |-> counts, by |-> by, tried |-> tried, full |-> full,
     selected |-> selected]

\* faulty variant: the try/except of lines 138-155 is missing
ApplySpecificNoCatch(c, method, o, tried, selected) ==
    LET r == NamedResampler(method) IN
    IF FitResampleRaises(r, c, o.full)
    THEN BalOut("raise", <<0, 0>>, NoneVal, tried, <<r>>, selected)
    ELSE BalOut("full", FitResample(r, c, o.enn), r, tried, <<r>>, selected)
\* lines 138-155
ApplySpecific(c, method, o, tried, selected) ==
    LET r == NamedResampler(method) IN
    IF FitResampleRaises(r, c, o.full)
    THEN BalOut("X", c, NoneVal, tried, <<r>>, selected)
    ELSE BalOut("full", FitResample(r, c, o.enn), r, tried, <<r>>, selected)

\* apply_class_balancing(X, y, method)
apply_class_balancing(c, method, o) ==
    IF ~check_class_imbalance(c)
    THEN BalOut("X", c, NoneVal, <<>>, <<>>, NoneVal)
    ELSE IF method = "auto"
    THEN LET s == select_best_resampling_method(c, o) IN
         IF s.raised
         THEN BalOut("raise", <<0, 0>>, NoneVal, <<>>, <<>>, NoneVal)
         ELSE IF s.name # NoneVal
         THEN IF FitResampleRaises(s.name, c, o.full)
              THEN BalOut("cv", s.counts, s.name, s.tried, <<s.name>>, s.name)
              ELSE BalOut("full", FitResample(s.name, c, o.enn), s.name, s.tried,
                          <<s.name>>, s.name)
         ELSE ApplySpecific(c, method, o, s.tried, NoneVal)
    ELSE ApplySpecific(c, method, o, <<>>, NoneVal)

(***************************************************************************)
(* The call of apply_class_balancing under study.                          *)
(***************************************************************************)
NoCall == BalOut("pending", <<0, 0>>, NoneVal, <<>>, <<>>, NoneVal)

NoCandidates == [i \in 1..3 |-> -1]
\* 'auto' reads every outcome; a named method reads only the full-data ones
BalOracles(method) ==
    IF method = "auto"
    THEN [cand : [1..3 -> -1..MaxF1], full : BOOLEAN, enn : 0..MaxEnnRemoved,
          tie : {1, 2}]
    ELSE [cand : {NoCandidates}, full : BOOLEAN, enn : 0..MaxEnnRemoved, tie : {1}]
BalInputs ==
    UNION {[c : (0..MaxCount) \X (0..MaxCount), method : {m}, o : BalOracles(m)] :
           m \in BalanceMethods}
BalIdle ==
    [c |-> <<0, 0>>, method |-> "idle",
     o |-> [cand |-> NoCandidates, full |-> FALSE, enn |-> 0, tie |-> 1]]

CallApplyClassBalancing ==
    /\ balRet = NoCall
    /\ balArgs # BalIdle
    /\ balRet' = apply_class_balancing(balArgs.c, balArgs.method, balArgs.o)
    /\ UNCHANGED <<balArgs, thrVars, trainVars, alnVars,
                   saveVars, swVars>>

(***************************************************************************)
(* domain_adaptation: the aligners, as provenance terms.                   *)
(***************************************************************************)
\* the routines that align a source matrix onto a target
AlignmentRoutines ==
    {"ensemble_domain_adaptation", "coral_transform", "subspace_alignment"}

\* subspace_alignment(source, target, n_comp): the source itself when PCA raises
subspace_alignment(src, tgt, pcaRaises) ==
    IF pcaRaises THEN src ELSE "subspace(" \o src \o "," \o tgt \o ")"

\* coral_transform(source, target): the source itself when sqrtm or inv raises
coral_transform(src, tgt, coralRaises) ==
    IF coralRaises THEN src ELSE "coral(" \o src \o "," \o tgt \o ")"

\* StandardScaler().fit(target).transform(source)
Rescale(src, tgt) == "rescale(" \o src \o "," \o tgt \o ")"

\* ensemble_domain_adaptation(source, target): the weighted blend of the
\* three outputs, and the routines it calls
ensemble_domain_adaptation(src, tgt, o) ==
    [value |-> "blend(" \o subspace_alignment(src, tgt, o.pca) \o ","
                        \o coral_transform(src, tgt, o.coral) \o ","
                        \o Rescale(src, tgt) \o ")",
     calls |-> <<"ensemble_domain_adaptation", "subspace_alignment",
                 "coral_transform">>]

\* measure_domain_gap(source, target, transformed)
measure_domain_gap(src, tgt, adapted) ==
    "gap(" \o src \o "," \o tgt \o "," \o adapted \o ")"

(***************************************************************************)
(* domain_adaptation on matrices: a matrix is an object with a shape and   *)
(* a per-feature mean; the library calls that can fail are inputs.         *)
(***************************************************************************)
\* rows and columns of the matrices the aligners are run on
MaxRows == 4
MaxCols == 5

\* config.py
SUBSPACE_MIN_COMPONENTS == 2
ENSEMBLE_WEIGHTS == <<4, 4, 2>>
\* ensemble.py line 34: n_comp = max(2, min(5, n_comp))
ENSEMBLE_MIN_COMPONENTS == 2
ENSEMBLE_MAX_COMPONENTS == 5

Min3(a, b, c) == Min2(a, Min2(b, c))

\* an optional argument: None is the empty tuple, a given value x is <<x>>
Absent == <<>>
Given(x) == <<x>>

\* a matrix object
Mat(obj, rows, cols, mean) ==
    [obj |-> obj, rows |-> rows, cols |-> cols, mean |-> mean]
\* the mean of a matrix whose values are not followed
Untracked == "untracked"
ZeroMean(cols) == [i \in 1..cols |-> 0]

\* np.mean(m, axis=0)
Mean(m) == m.mean
\* m - np.mean(m, axis=0): a new matrix of the same shape with zero mean
Center(m) == Mat(m.obj \o ".centered", m.rows, m.cols,
                 [i \in 1..m.cols |-> m.mean[i] - Mean(m)[i]])
\* faulty variant: the source is not centred before it is transformed
NotCentered(m) == Mat(m.obj \o ".centered", m.rows, m.cols, m.mean)
\* coral.py line 26: source_centered
SourceCentered(m) == Center(m)

\* faulty variant: the failure is raised to the caller
RaiseToCaller(src, k) == [raised |-> TRUE, mat |-> src, path |-> "raise", k |-> k]
\* coral.py lines 45-47, subspace.py lines 55-57: on any exception the source
\* features are returned
ReturnSource(src, k) == [raised |-> FALSE, mat |-> src, path |-> "fallback", k |-> k]

\* np.cov of a matrix with fewer than two rows is NaN; sqrtm and inv reject
\* a matrix that is not finite, and may fail on the data (o.sqrtm)
CoralRaises(src, tgt, o) == o.sqrtm \/ src.rows < 2 \/ tgt.rows < 2

\* coral.py lines 30-36, on covariances that are multiples of the identity:
\* source_cov = a*a*I and target_cov = b*b*I.  A matrix c*I is kept as the
\* fraction c.
source_cov_sqrt(o) == FracOfInt(o.a)
source_cov_inv_sqrt(o) == <<source_cov_sqrt(o)[2], source_cov_sqrt(o)[1]>>
target_cov_sqrt(o) == FracOfInt(o.b)
\* coral.py line 39: the factors of the two np.dot calls, left to right
TransformFactors(o) ==
    <<source_cov_inv_sqrt(o), target_cov_sqrt(o), source_cov_inv_sqrt(o)>>
RECURSIVE DotAll(_)
DotAll(factors) ==
    IF factors = <<>> THEN FracOfInt(1)
    ELSE FracMul(Head(factors), DotAll(Tail(factors)))
\* np.dot(v, transform) for one entry v of a mean; the means of the inputs
\* are multiples of a*a, so the quotient is whole
DotEntry(v, transform) == (v * transform[1]) \div transform[2]

\* coral.py lines 22-47: np.dot(source_centered, transform) + target_mean
coral_transform_m(src, tgt, o) ==
    IF CoralRaises(src, tgt, o)
    THEN ReturnSource(src, 0)
    ELSE LET transform == DotAll(TransformFactors(o)) IN
         [raised |-> FALSE,
          mat |-> Mat("coral.transformed", src.rows, tgt.cols,
                      [i \in 1..tgt.cols |->
                          DotEntry(Mean(SourceCentered(src))[i], transform)
                              + Mean(tgt)[i]]),
          path |-> "success", k |-> 0,
          factors |-> TransformFactors(o), transform |-> transform]

\* subspace.py lines 24-26: the component count when none is given
DefaultComponents(d, n_src, n_tgt) ==
    Max2(Min2(d \div 2 + 1, Min2(n_src, n_tgt) - 1), SUBSPACE_MIN_COMPONENTS)
\* faulty variant: the count is not made valid for the shapes (lines 29-31)
NComponentsNotValidated(src, tgt, n_components) ==
    IF n_components = Absent
    THEN DefaultComponents(src.cols, src.rows, tgt.rows)
    ELSE n_components[1]
\* subspace.py lines 23-31: the component count used
NComponents(src, tgt, n_components) ==
    LET n == IF n_components = Absent
             THEN DefaultComponents(src.cols, src.rows, tgt.rows)
             ELSE n_components[1]
    IN  Min3(n, Min2(src.cols, tgt.cols), Min2(src.rows, tgt.rows) - 1)

\* PCA(n_components=k).fit rejects a negative k, and may fail on the data
PcaRaises(k, o) == o.pca \/ k < 0

\* faulty variant: the aligned features are left in the k-dimensional subspace
NotProjectedBack(k, tgt) == k
\* subspace.py line 52: np.dot(Xs_aligned, target_components) has the
\* columns of the target
ProjectedCols(k, tgt) == tgt.cols

\* subspace.py lines 10-57; PCA centres the source, so the aligned features
\* have zero mean
subspace_alignment_m(src, tgt, n_components, o) ==
    LET k == NComponents(src, tgt, n_components) IN
    IF PcaRaises(k, o)
    THEN ReturnSource(src, k)
    ELSE [raised |-> FALSE,
          mat |-> Mat("subspace.aligned_features", src.rows, ProjectedCols(k, tgt),
                      ZeroMean(ProjectedCols(k, tgt))),
          path |-> "success", k |-> k]

\* StandardScaler().fit(target) rejects a matrix without rows, and may fail
\* on the data (o.fit)
ScalerFitRaises(tgt, o) == o.fit \/ tgt.rows = 0
\* StandardScaler().fit(target).transform(source)
Rescale_m(src, tgt) == Mat("scaler.transform(source)", src.rows, src.cols, Untracked)

\* ensemble.py lines 32-34: the component count the ensemble asks for
EnsembleComponents(src, tgt) ==
    Max2(ENSEMBLE_MIN_COMPONENTS,
         Min2(ENSEMBLE_MAX_COMPONENTS,
              Min3(src.cols, tgt.cols, Min2(src.rows, tgt.rows) - 1) \div 2))

RECURSIVE SumSeq(_)
SumSeq(w) == IF w = <<>> THEN 0 ELSE Head(w) + SumSeq(Tail(w))

\* ensemble.py line 53: np.array(weights) / sum(weights), each weight as the
\* ratio <<w, sum>>; a zero sum gives NaN or infinite weights, no exception
NormalizeWeights(w) == [i \in DOMAIN w |-> <<w[i], SumSeq(w)>>]

SameShape(a, b) == a.rows = b.rows /\ a.cols = b.cols

\* ensemble.py lines 13-68: the outcome of the call, and the routines the
\* blend was made from
ensemble_domain_adaptation_m(src, tgt, weights, o) ==
    LET w0 == IF weights = Absent THEN ENSEMBLE_WEIGHTS ELSE weights
        sub == subspace_alignment_m(src, tgt, Given(EnsembleComponents(src, tgt)), o)
        adapted_subspace == IF sub.raised THEN src ELSE sub.mat
        cor == coral_transform_m(src, tgt, o)
        adapted_coral == IF cor.raised THEN src ELSE cor.mat
        adapted_scaled == Rescale_m(src, tgt)
        w == NormalizeWeights(w0)
        combinationRaises ==
            \/ ScalerFitRaises(tgt, o)
            \/ Len(w) < 3
            \/ ~SameShape(adapted_subspace, adapted_coral)
            \/ ~SameShape(adapted_coral, adapted_scaled)
    IN  IF ~combinationRaises
        THEN [raised |-> FALSE, path |-> "blend",
              mat |-> Mat("ensemble.adapted_ensemble", adapted_scaled.rows,
                          adapted_scaled.cols, Untracked),
              terms |-> <<adapted_subspace, adapted_coral, adapted_scaled>>,
              used |-> SubSeq(w, 1, 3), k |-> sub.k]
        ELSE IF ScalerFitRaises(tgt, o)
        THEN [raised |-> TRUE, path |-> "raise", mat |-> src,
              terms |-> <<>>, used |-> <<>>, k |-> sub.k]
        ELSE [raised |-> FALSE, path |-> "rescale", mat |-> Rescale_m(src, tgt),
              terms |-> <<>>, used |-> <<>>, k |-> sub.k]

\* the largest gap between the means the gap routines are run on
MaxNorm == 5
RECURSIVE SumSq(_, _)
SumSq(v, n) == IF n = 0 THEN 0 ELSE v[n] * v[n] + SumSq(v, n - 1)
\* np.linalg.norm(v)
Norm(v, n) == CHOOSE r \in 0..MaxNorm : r * r = SumSq(v, n)

\* coral.py lines 50-66
calculate_domain_discrepancy(src, tgt) ==
    Norm([i \in 1..src.cols |-> Mean(src)[i] - Mean(tgt)[i]], src.cols)

\* faulty variant: the quotient is taken whatever gap_before is
GapReductionUnguarded(before, after) ==
    [value |-> <<before - after, before>>, divisors |-> <<before>>]
\* ensemble.py line 89, coral.py line 86:
\* 1.0 - (gap_after / gap_before) if gap_before > 0 else 0.0
GapReduction(before, after) ==
    IF before > 0
    THEN [value |-> <<before - after, before>>, divisors |-> <<before>>]
    ELSE [value |-> <<0, 1>>, divisors |-> <<>>]

\* ensemble.py lines 71-99
measure_domain_gap_m(src, tgt, transformed) ==
    LET gap_before == calculate_domain_discrepancy(src, tgt) IN
    IF transformed # Absent
    THEN LET gap_after == calculate_domain_discrepancy(transformed[1], tgt)
             r == GapReduction(gap_before, gap_after)
         IN  [raised |-> FALSE, path |-> "returned", gap_before |-> gap_before, gap_after |-> gap_after,
              gap_reduction |-> r.value,
              gap_reduction_percent |-> <<r.value[1] * 100, r.value[2]>>,
              divisors |-> r.divisors]
    ELSE [raised |-> FALSE, path |-> "returned", gap_before |-> gap_before, gap_after |-> Absent,
          gap_reduction |-> Absent, gap_reduction_percent |-> Absent,
          divisors |-> <<>>]

\* coral.py lines 69-93
calculate_coral_improvement(src, tgt, coral_transformed) ==
    LET discrepancy_before == calculate_domain_discrepancy(src, tgt)
        discrepancy_after == calculate_domain_discrepancy(coral_transformed, tgt)
        r == GapReduction(discrepancy_before, discrepancy_after)
    IN  [raised |-> FALSE, path |-> "returned", gap_before |-> discrepancy_before,
         gap_after |-> discrepancy_after, gap_reduction |-> r.value,
         gap_reduction_percent |-> <<r.value[1] * 100, r.value[2]>>,
         divisors |-> r.divisors]

\* the call under study has not been made
AlnNoCall == [raised |-> FALSE, path |-> "pending"]
AlnIdleOracle == [sqrtm |-> FALSE, pca |-> FALSE, fit |-> FALSE, a |-> 1, b |-> 1]
AlnIdle ==
    [routine |-> "idle", src |-> NoneVal, tgt |-> NoneVal, n_components |-> Absent,
     weights |-> Absent, transformed |-> Absent, o |-> AlnIdleOracle]

\* per-feature means of two features: the corners of a 3 x 4 rectangle
CornerMeans == {<<0, 0>>, <<3, 0>>, <<0, 4>>, <<3, 4>>}
\* weight lists given to the ensemble, None for the default
WeightChoices ==
    {Absent, <<8, 1, 1>>, <<1, 1, 1>>, <<33, 33, 34>>, <<0, 0, 0>>, <<1, -1, 0>>,
     <<4, 4>>}
\* explicit component counts given to subspace_alignment
ComponentChoices == {Absent, Given(1), Given(3)}

AlnCall(routine, src, tgt, n_components, weights, transformed, o) ==
    [routine |-> routine, src |-> src, tgt |-> tgt, n_components |-> n_components,
     weights |-> weights, transformed |-> transformed, o |-> o]

CoralInputs ==
    {AlnCall("coral_transform", Mat("source_features", ns, d, [i \in 1..d |-> sm]),
             Mat("target_features", nt, d, [i \in 1..d |-> tm]), Absent, Absent, Absent,
             [AlnIdleOracle EXCEPT !.sqrtm = f, !.a = a, !.b = b]) :
        ns \in 1..MaxRows, nt \in 0..MaxRows, d \in 1..MaxCols,
        sm \in {0, 4}, tm \in {0, 4}, f \in BOOLEAN, a \in {1, 2}, b \in {1, 2, 3}}
SubspaceInputs ==
    {AlnCall("subspace_alignment", Mat("source_features", ns, d, ZeroMean(d)),
             Mat("target_features", nt, d, ZeroMean(d)), k, Absent, Absent,
             [AlnIdleOracle EXCEPT !.pca = f]) :
        ns \in 1..MaxRows, nt \in 0..MaxRows, d \in 1..MaxCols,
        k \in ComponentChoices, f \in BOOLEAN}
EnsembleInputs ==
    {AlnCall("ensemble_domain_adaptation", Mat("source_features", ns, d, ZeroMean(d)),
             Mat("target_features", nt, d, ZeroMean(d)), Absent, w, Absent, o) :
        ns \in 1..MaxRows, nt \in 0..MaxRows, d \in 1..MaxCols,
        w \in WeightChoices,
        o \in [sqrtm : BOOLEAN, pca : BOOLEAN, fit : BOOLEAN, a : {1}, b : {1}]}
GapInputs ==
    {AlnCall(r, Mat("source_features", ns, 2, sm), Mat("target_features", nt, 2, tm),
             Absent, Absent, Given(Mat("transformed_features", ns, 2, am)),
             AlnIdleOracle) :
        r \in {"measure_domain_gap", "calculate_coral_improvement"},
        ns \in 1..2, nt \in 1..2,
        sm \in CornerMeans, tm \in CornerMeans, am \in CornerMeans}
    \cup
    {AlnCall("measure_domain_gap", Mat("source_features", 2, 2, sm),
             Mat("target_features", 2, 2, tm), Absent, Absent, Absent,
             AlnIdleOracle) :
        sm \in CornerMeans, tm \in CornerMeans}
AlnInputs == CoralInputs \cup SubspaceInputs \cup EnsembleInputs \cup GapInputs

CallCoralTransform ==
    /\ alnRet = AlnNoCall
    /\ alnArgs.routine = "coral_transform"
    /\ alnRet' = coral_transform_m(alnArgs.src, alnArgs.tgt, alnArgs.o)
    /\ UNCHANGED <<alnArgs, balVars, thrVars, trainVars, saveVars, swVars>>

CallSubspaceAlignment ==
    /\ alnRet = AlnNoCall
    /\ alnArgs.routine = "subspace_alignment"
    /\ alnRet' = subspace_alignment_m(alnArgs.src, alnArgs.tgt, alnArgs.n_components,
                                      alnArgs.o)
    /\ UNCHANGED <<alnArgs, balVars, thrVars, trainVars, saveVars, swVars>>

CallEnsembleDomainAdaptation ==
    /\ alnRet = AlnNoCall
    /\ alnArgs.routine = "ensemble_domain_adaptation"
    /\ alnRet' = ensemble_domain_adaptation_m(alnArgs.src, alnArgs.tgt,
                                              alnArgs.weights, alnArgs.o)
    /\ UNCHANGED <<alnArgs, balVars, thrVars, trainVars, saveVars, swVars>>

CallMeasureDomainGap ==
    /\ alnRet = AlnNoCall
    /\ alnArgs.routine = "measure_domain_gap"
    /\ alnRet' = measure_domain_gap_m(alnArgs.src, alnArgs.tgt, alnArgs.transformed)
    /\ UNCHANGED <<alnArgs, balVars, thrVars, trainVars, saveVars, swVars>>

CallCalculateCoralImprovement ==
    /\ alnRet = AlnNoCall
    /\ alnArgs.routine = "calculate_coral_improvement"
    /\ alnRet' = calculate_coral_improvement(alnArgs.src, alnArgs.tgt,
                                             alnArgs.transformed[1])
    /\ UNCHANGED <<alnArgs, balVars, thrVars, trainVars, saveVars, swVars>>

(***************************************************************************)
(* models/training.py                                                      *)
(***************************************************************************)
Datasets == {"wesad", "kemocon"}
\* w2k: train_cross_dataset_model, k2w: train_reverse_model
Directions == {"w2k", "k2w"}
Source(d) == IF d = "w2k" THEN "wesad" ELSE "kemocon"
Target(d) == IF d = "w2k" THEN "kemocon" ELSE "wesad"
Other(d) == IF d = "w2k" THEN "k2w" ELSE "w2k"

\* the caller's arrays
InputX(ds) == ds \o "_X"
InputY(ds) == ds \o "_y"
InputObjects == {InputX(ds) : ds \in Datasets} \cup {InputY(ds) : ds \in Datasets}

\* an object constructed by one call of a trainer belongs to that call
Obj(d, name) == d \o "." \o name

\* Python truthiness of the adaptation_method argument
Truthy(m) == m # NoneVal /\ m # ""

\* the if/else of lines 95-117: which routine aligns for this method
Dispatch(m) ==
    IF ~Truthy(m) THEN "none"
    ELSE IF m = "ensemble" THEN "ensemble"
    ELSE "unknown"

\* values the trainer computes
RobustFit(x) == "RobustScaler.fit(" \o x \o ")"
Transform(scaler, x) == scaler \o ".transform(" \o x \o ")"
VotingFit(x, y) == "Voting.fit(" \o x \o "," \o y \o ")"
GBRefit(model, x, y, w) ==
    model \o "+gb.fit(" \o x \o "," \o y \o ",sample_weight=" \o w \o ")"
SampleWeights(y) == "weights(" \o y \o ")"
Resampled(by, x) == by \o "(" \o x \o ")"

NoLocals ==
    [X_balanced |-> NoneVal, y_balanced |-> NoneVal, counts |-> <<0, 0>>,
     scaler |-> NoneVal, X_scaled |-> NoneVal, T_scaled |-> NoneVal,
     adapted |-> NoneVal, gap_info |-> NoneVal, X_train |-> NoneVal,
     ensemble |-> NoneVal, sample_weights |-> NoneVal]
NoBundle ==
    [model |-> NoneVal, scaler |-> NoneVal, adaptation_method |-> NoneVal,
     gap_info |-> NoneVal, adapted_features |-> NoneVal,
     original_features |-> NoneVal, target_features |-> NoneVal,
     class_distribution |-> <<0, 0>>, original_distribution |-> <<0, 0>>]

\* the trainer calls apply_class_balancing(X, y) with the default method, so
\* only the full-data fit_resample of that method can be reached
TrainerBalOracle(d) ==
    [cand |-> NoCandidates, full |-> oracle[d].smote, enn |-> 0, tie |-> 1]

Alloc(h, id, v) == (id :> v) @@ h

\* train_bidirectional_models, lines 245-250: the reverse direction is
\* trained after the forward direction has returned; called by two workers
\* (entry "workers"), each direction runs on its own
Sched(d) ==
    /\ mainpc = "bidirectional"
    /\ entry # "workers" /\ d = "k2w" => pc["w2k"] = "done"

\* faulty variant: the labels of the target dataset are the ones balanced
TrainLabelsOfTarget(d) == Target(d)
\* lines 83 / 165: the dataset whose label vector the trainer uses
TrainLabels(d) == Source(d)
\* lines 83 / 165: apply_class_balancing(X, y)
Balance(d) ==
    /\ Sched(d)
    /\ pc[d] = "start"
    /\ LET x == InputX(Source(d))
           y == InputY(TrainLabels(d))
           r == apply_class_balancing(labels[TrainLabels(d)], CLASS_BALANCE_METHOD,
                                      TrainerBalOracle(d))
       IN  /\ reads' = [reads EXCEPT ![d] = @ \cup {x, y}]
           /\ IF r.ret = "raise"
              THEN /\ pc' = [pc EXCEPT ![d] = "raised"]
                   /\ UNCHANGED <<loc, heap, writes>>
              ELSE IF r.ret = "X"
              THEN /\ pc' = [pc EXCEPT ![d] = "balanced"]
                   /\ loc' = [loc EXCEPT ![d].X_balanced = x, ![d].y_balanced = y,
                                         ![d].counts = r.counts]
                   /\ UNCHANGED <<heap, writes>>
              ELSE /\ pc' = [pc EXCEPT ![d] = "balanced"]
                   /\ loc' = [loc EXCEPT ![d].X_balanced = Obj(d, "X_balanced"),
                                         ![d].y_balanced = Obj(d, "y_balanced"),
                                         ![d].counts = r.counts]
                   /\ heap' = Alloc(Alloc(heap, Obj(d, "X_balanced"),
                                          Resampled(r.by, heap[x])),
                                    Obj(d, "y_balanced"), Resampled(r.by, heap[y]))
                   /\ writes' = [writes EXCEPT
                                   ![d] = @ \cup {Obj(d, "X_balanced"),
                                                  Obj(d, "y_balanced")}]
    /\ UNCHANGED <<entry, selector, adaptation_method, mainpc, labels, oracle,
                   calls, out, balVars, thrVars, alnVars, fits, evals,
                   saveVars, swVars>>

\* lines 86-87 / 168-169: scaler = RobustScaler(); scaler.fit_transform(balanced)
\* faulty variant: one module-level scaler used by both trainers
SharedScaler(d) == "module.scaler"
NewScaler(d) == Obj(d, "scaler")
\* faulty variant: the scaler is fit on the target matrix
ScalerFitInputTarget(d) == InputX(Target(d))
\* lines 87 / 169: the matrix fit_transform fits the scaler on
ScalerFitInput(d) == loc[d].X_balanced
FitTransform(d) ==
    /\ Sched(d)
    /\ pc[d] = "balanced"
    /\ LET s == NewScaler(d)
           fitted == RobustFit(heap[ScalerFitInput(d)])
       IN  /\ heap' = Alloc(Alloc(heap, s, fitted), Obj(d, "X_scaled"),
                            Transform(fitted, heap[loc[d].X_balanced]))
           /\ loc' = [loc EXCEPT ![d].scaler = s, ![d].X_scaled = Obj(d, "X_scaled")]
           /\ reads' = [reads EXCEPT ![d] = @ \cup {loc[d].X_balanced}]
           /\ writes' = [writes EXCEPT ![d] = @ \cup {s, Obj(d, "X_scaled")}]
    /\ pc' = [pc EXCEPT ![d] = "scaler_fit"]
    /\ UNCHANGED <<entry, selector, adaptation_method, mainpc, labels, oracle,
                   calls, out, balVars, thrVars, alnVars, fits, evals,
                   saveVars, swVars>>

\* lines 88 / 170: scaler.transform(target X)
TransformTarget(d) ==
    /\ Sched(d)
    /\ pc[d] = "scaler_fit"
    /\ LET t == InputX(Target(d)) IN
       /\ heap' = Alloc(heap, Obj(d, "T_scaled"),
                        Transform(heap[loc[d].scaler], heap[t]))
       /\ loc' = [loc EXCEPT ![d].T_scaled = Obj(d, "T_scaled")]
       /\ reads' = [reads EXCEPT ![d] = @ \cup {t, loc[d].scaler}]
       /\ writes' = [writes EXCEPT ![d] = @ \cup {Obj(d, "T_scaled")}]
    /\ pc' = [pc EXCEPT ![d] = "scaled"]
    /\ UNCHANGED <<entry, selector, adaptation_method, mainpc, labels, oracle,
                   calls, out, balVars, thrVars, alnVars, fits, evals,
                   saveVars, swVars>>

\* faulty variant: adapted keeps its initial None (lines 91 / 173)
UnalignedAdaptedNone(d) == NoneVal
\* lines 112, 116 / 194, 198: adapted = X_scaled when no routine aligns
UnalignedAdapted(d) == loc[d].X_scaled
\* lines 91-117 / 173-199: the adaptation dispatch
Adapt(d) ==
    /\ Sched(d)
    /\ pc[d] = "scaled"
    /\ reads' = [reads EXCEPT ![d] = @ \cup {loc[d].X_scaled, loc[d].T_scaled}]
    /\ IF Dispatch(adaptation_method) = "ensemble"
       THEN LET a == ensemble_domain_adaptation(heap[loc[d].X_scaled],
                                                heap[loc[d].T_scaled], oracle[d])
                g == measure_domain_gap(heap[loc[d].X_scaled],
                                        heap[loc[d].T_scaled], a.value)
            IN  /\ heap' = Alloc(Alloc(heap, Obj(d, "adapted"), a.value),
                                 Obj(d, "gap_info"), g)
                /\ loc' = [loc EXCEPT ![d].adapted = Obj(d, "adapted"),
                                      ![d].gap_info = Obj(d, "gap_info"),
                                      ![d].X_train = Obj(d, "adapted")]
                /\ calls' = [calls EXCEPT ![d] = @ \o a.calls \o <<"measure_domain_gap">>]
                /\ writes' = [writes EXCEPT
                                ![d] = @ \cup {Obj(d, "adapted"), Obj(d, "gap_info")}]
       ELSE /\ loc' = [loc EXCEPT ![d].adapted = UnalignedAdapted(d),
                                  ![d].X_train = loc[d].X_scaled]
            /\ UNCHANGED <<heap, calls, writes>>
    /\ pc' = [pc EXCEPT ![d] = "adapted"]
    /\ UNCHANGED <<entry, selector, adaptation_method, mainpc, labels, oracle,
                   out, balVars, thrVars, alnVars, fits, evals,
                   saveVars, swVars>>

\* lines 120-126 / 202-208: create_model_ensemble(), create_sample_weights,
\* ensemble.fit(X_train, y_balanced)
NewEnsemble(d) == Obj(d, "ensemble")
\* create_model_ensemble, line 58: the members of the voting ensemble, in order
EnsembleMembers == <<"rf", "gb", "svm">>
\* VotingClassifier.fit(X, y): every member is fit once, without sample weights
VotingFits ==
    [i \in DOMAIN EnsembleMembers |->
        [member |-> EnsembleMembers[i], weighted |-> FALSE]]
\* faulty variant: the bagged-tree member is the one refit with weights
WeightedMemberRf == "rf"
\* lines 129 / 211: named_estimators_['gb']
WeightedMember == "gb"
FitEnsemble(d) ==
    /\ Sched(d)
    /\ pc[d] = "adapted"
    /\ LET e == NewEnsemble(d) IN
       /\ heap' = Alloc(Alloc(heap, Obj(d, "sample_weights"),
                              SampleWeights(heap[loc[d].y_balanced])),
                        e, VotingFit(heap[loc[d].X_train], heap[loc[d].y_balanced]))
       /\ loc' = [loc EXCEPT ![d].ensemble = e,
                             ![d].sample_weights = Obj(d, "sample_weights")]
       /\ reads' = [reads EXCEPT ![d] = @ \cup {loc[d].X_train, loc[d].y_balanced}]
       /\ writes' = [writes EXCEPT ![d] = @ \cup {e, Obj(d, "sample_weights")}]
    /\ fits' = [fits EXCEPT ![d] = @ \o VotingFits]
    /\ pc' = [pc EXCEPT ![d] = "ensemble_fit"]
    /\ UNCHANGED <<entry, selector, adaptation_method, mainpc, labels, oracle,
                   calls, out, balVars, thrVars, alnVars, evals,
                   saveVars, swVars>>

\* lines 129-130 / 211-212: the boosted-tree member is fit again, weighted
RefitGB(d) ==
    /\ Sched(d)
    /\ pc[d] = "ensemble_fit"
    /\ heap' = [heap EXCEPT
                  ![loc[d].ensemble] =
                      GBRefit(@, heap[loc[d].X_train], heap[loc[d].y_balanced],
                              heap[loc[d].sample_weights])]
    /\ reads' = [reads EXCEPT
                   ![d] = @ \cup {loc[d].ensemble, loc[d].X_train, loc[d].y_balanced,
                                  loc[d].sample_weights}]
    /\ writes' = [writes EXCEPT ![d] = @ \cup {loc[d].ensemble}]
    /\ fits' = [fits EXCEPT
                  ![d] = Append(@, [member |-> WeightedMember, weighted |-> TRUE])]
    /\ pc' = [pc EXCEPT ![d] = "gb_refit"]
    /\ UNCHANGED <<entry, selector, adaptation_method, mainpc, labels, oracle,
                   loc, calls, out, balVars, thrVars, alnVars, evals,
                   saveVars, swVars>>

\* lines 133-145 / 215-227: the info bundle and the return
Return(d) ==
    /\ Sched(d)
    /\ pc[d] = "gb_refit"
    /\ out' = [out EXCEPT
                 ![d] = [model |-> loc[d].ensemble, scaler |-> loc[d].scaler,
                         adaptation_method |-> adaptation_method,
                         gap_info |-> loc[d].gap_info,
                         adapted_features |-> loc[d].adapted,
                         original_features |-> loc[d].X_scaled,
                         target_features |-> loc[d].T_scaled,
                         class_distribution |-> loc[d].counts,
                         original_distribution |-> labels[Source(d)]]]
    /\ reads' = [reads EXCEPT ![d] = @ \cup {loc[d].y_balanced, InputY(Source(d))}]
    /\ pc' = [pc EXCEPT ![d] = "done"]
    /\ UNCHANGED <<entry, selector, adaptation_method, mainpc, labels, oracle,
                   loc, heap, calls, writes, balVars, thrVars, alnVars, fits, evals,
                   saveVars, swVars>>

(***************************************************************************)
(* main.py and framework.py: how the selected method reaches the trainer.  *)
(***************************************************************************)
\* choices of --adaptation-method (main.py line 65)
CliChoices == {"ensemble", "coral", "subspace", "none"}

\* main(), lines 273-284: 'none' becomes None before the framework is called
Main ==
    /\ mainpc = "main"
    /\ adaptation_method' =
           IF adaptation_method = "none" THEN NoneVal ELSE adaptation_method
    /\ mainpc' = "framework"
    /\ UNCHANGED <<entry, selector, labels, oracle, pc, loc, heap, calls, reads,
                   writes, out, balVars, thrVars, alnVars, fits, evals,
                   saveVars, swVars>>

\* CrossDatasetFramework.train_cross_dataset_models, lines 295-336, with both
\* datasets loaded and common features found
FrameworkTrain ==
    /\ mainpc = "framework"
    /\ adaptation_method' =
           IF adaptation_method = NoneVal THEN DEFAULT_ADAPTATION_METHOD
           ELSE adaptation_method
    /\ mainpc' = "bidirectional"
    /\ UNCHANGED <<entry, selector, labels, oracle, pc, loc, heap, calls, reads,
                   writes, out, balVars, thrVars, alnVars, fits, evals,
                   saveVars, swVars>>

\* train_bidirectional_models, lines 253-264
ReturnModels ==
    /\ mainpc = "bidirectional"
    /\ \A d \in Directions : pc[d] = "done"
    /\ mainpc' = "returned"
    /\ UNCHANGED <<entry, selector, adaptation_method, labels, oracle, pc, loc,
                   heap, calls, reads, writes, out, balVars, thrVars, alnVars, fits, evals,
                   saveVars, swVars>>

(***************************************************************************)
(* Use of the trained models: evaluate_bidirectional_models and the demo   *)
(* server's predict_with_model.                                            *)
(***************************************************************************)
\* prediction requests served in one run
MaxPredictions == 2

\* training.py lines 253-264: the entry of the returned dictionary for a
\* direction; save_demo_samples.py lines 100-123 stores the same pair
ModelsDict(d) == [model |-> out[d].model, scaler |-> out[d].scaler]

\* faulty variant: the scaler is fit again on the data it is applied to
ScalerFitTransform(h, scaler, x) ==
    [heap |-> [h EXCEPT ![scaler] = RobustFit(x)],
     value |-> Transform(RobustFit(x), x)]
\* scaler.transform(X): evaluation.py line 69, model.py line 201
ScalerTransform(h, scaler, x) ==
    [heap |-> h, value |-> Transform(h[scaler], x)]

\* model.predict_proba(X_scaled)
PredictProba(model, x) == model \o ".predict_proba(" \o x \o ")"

\* one call of evaluate_model or predict_with_model for direction d on x
EvalRecord(op, d, m, x, y, scaled) ==
    [op |-> op, direction |-> d, model |-> m.model, scaler |-> m.scaler,
     X |-> x, y_true |-> y, y_prob |-> PredictProba(heap[m.model], scaled)]

\* evaluation.py lines 169-173: evaluate_model(model, X_target, y_target,
\* scaler) for WESAD -> K-EmoCon, then for K-EmoCon -> WESAD
EvaluateModel(d) ==
    /\ mainpc = "returned"
    /\ Len(evals) = IF d = "w2k" THEN 0 ELSE 1
    /\ LET m == ModelsDict(d)
           x == heap[InputX(Target(d))]
           r == ScalerTransform(heap, m.scaler, x)
       IN  /\ heap' = r.heap
           /\ evals' = Append(evals, EvalRecord("evaluate_model", d, m, x,
                                                 InputY(Target(d)), r.value))
    /\ mainpc' = IF d = "k2w" THEN "evaluated" ELSE mainpc
    /\ UNCHANGED <<entry, selector, adaptation_method, labels, oracle, pc, loc,
                   calls, reads, writes, out, fits, balVars, thrVars, alnVars,
                   saveVars, swVars>>

\* server/cross_dataset/model.py lines 159-214: predict_with_model for a
\* requested direction, on one sample of that direction's target dataset
PredictWithModel(d) ==
    /\ mainpc = "evaluated"
    /\ Len(evals) < Cardinality(Directions) + MaxPredictions
    /\ LET m == ModelsDict(d)
           x == "sample(" \o heap[InputX(Target(d))] \o ")"
           r == ScalerTransform(heap, m.scaler, x)
       IN  /\ heap' = r.heap
           /\ evals' = Append(evals, EvalRecord("predict_with_model", d, m, x, NoneVal,
                                                 r.value))
    /\ UNCHANGED <<entry, selector, adaptation_method, mainpc, labels, oracle, pc,
                   loc, calls, reads, writes, out, fits, balVars, thrVars, alnVars,
                   saveVars, swVars>>

(***************************************************************************)
(* models/evaluation.py: find_optimal_threshold.  Probabilities and        *)
(* thresholds are in hundredths; a score is the exact ratio <<num, den>>.   *)
(***************************************************************************)
\* config.py line 43
DECISION_THRESHOLDS == <<20, 25, 30, 35, 40, 45, 50, 55, 60, 65, 70, 75, 80>>
Metrics == {"f1", "balanced_acc", "accuracy"}

\* lines 32-33: best_score = 0, best_threshold = 0.5
INITIAL_BEST_THRESHOLD == 50
ZeroScore == <<0, 1>>

ScoreGt(p, q) == p[1] * q[2] > q[1] * p[2]
ScoreGe(p, q) == p[1] * q[2] >= q[1] * p[2]

\* line 36: y_pred = (y_prob >= threshold).astype(int)
Predict(y_prob, threshold) ==
    [i \in DOMAIN y_prob |-> IF y_prob[i] >= threshold THEN 1 ELSE 0]

NumWhere(yt, yp, t, p) == Cardinality({i \in DOMAIN yt : yt[i] = t /\ yp[i] = p})
Support(yt, l) == Cardinality({i \in DOMAIN yt : yt[i] = l})
\* the labels sklearn scores: those present in y_true or y_pred
LabelsIn(yt, yp) == {l \in {0, 1} : \E i \in DOMAIN yt : yt[i] = l \/ yp[i] = l}

\* accuracy_score
accuracy_score(yt, yp) ==
    <<Cardinality({i \in DOMAIN yt : yt[i] = yp[i]}), Len(yt)>>

\* F1 of one label: 2 tp / (2 tp + fp + fn)
F1Of(yt, yp, l) ==
    LET tp == NumWhere(yt, yp, l, l)
        fp == NumWhere(yt, yp, 1 - l, l)
        fn == NumWhere(yt, yp, l, 1 - l)
    IN  <<2 * tp, 2 * tp + fp + fn>>

\* the unweighted mean of the ratios of a set of labels
MeanOver(L, r) ==
    IF L = {0, 1}
    THEN <<r[0][1] * r[1][2] + r[1][1] * r[0][2], 2 * r[0][2] * r[1][2]>>
    ELSE LET l == CHOOSE x \in L : TRUE IN r[l]

\* f1_score(y_true, y_pred, average='macro')
f1_macro(yt, yp) ==
    MeanOver(LabelsIn(yt, yp), [l \in {0, 1} |-> F1Of(yt, yp, l)])

\* balanced_accuracy_score: mean recall over the classes present in y_true
balanced_accuracy_score(yt, yp) ==
    MeanOver({l \in {0, 1} : Support(yt, l) > 0},
             [l \in {0, 1} |-> <<NumWhere(yt, yp, l, l), Support(yt, l)>>])

\* lines 38-43: the metric dispatch, accuracy for any other name
Score(metric, yt, yp) ==
    IF metric = "f1" THEN f1_macro(yt, yp)
    ELSE IF metric = "balanced_acc" THEN balanced_accuracy_score(yt, yp)
    ELSE accuracy_score(yt, yp)

ScoreAt(call, threshold) ==
    Score(call.metric, call.y_true, Predict(call.y_prob, threshold))

\* faulty variant: the better score is not recorded with its threshold
KeepThresholdOnly(best, threshold, score) ==
    IF ScoreGt(score, best.score)
    THEN [score |-> best.score, threshold |-> threshold]
    ELSE best
\* faulty variant: a score equal to the best one replaces it
ImprovesOrTies(score, best) == ScoreGe(score, best)
\* line 45: if score > best_score
Improves(score, best) == ScoreGt(score, best)
\* lines 45-47: keep the first threshold with a strictly better score
UpdateBest(best, threshold, score) ==
    IF Improves(score, best.score)
    THEN [score |-> score, threshold |-> threshold]
    ELSE best

ThrIdle == [y_true |-> <<>>, y_prob |-> <<>>, metric |-> "f1"]

\* one pass of the for loop of find_optimal_threshold
ThresholdStep ==
    /\ thrArgs # ThrIdle
    /\ thrIdx < Len(DECISION_THRESHOLDS)
    /\ LET threshold == DECISION_THRESHOLDS[thrIdx + 1]
           b == UpdateBest([score |-> best_score, threshold |-> best_threshold],
                           threshold, ScoreAt(thrArgs, threshold))
       IN  /\ best_score' = b.score
           /\ best_threshold' = b.threshold
    /\ thrIdx' = thrIdx + 1
    /\ UNCHANGED <<thrArgs, balVars, trainVars, alnVars,
                   saveVars, swVars>>

(***************************************************************************)
(* cross_dataset/main.py and config.py: the saving options                 *)
(***************************************************************************)
\* config.py 49-50
SAVE_MODE_OPTIONS == {"minimal", "standard", "full", "none"}
DEFAULT_SAVE_MODE == "standard"

SaveOpts(models, features, plots, adaptation, personal) ==
    [save_models |-> models, save_features |-> features, save_plots |-> plots,
     save_results |-> TRUE, save_adaptation |-> adaptation,
     save_personal_models |-> personal]
\* config.py 59-92
SAVE_OPTIONS ==
    [none |-> SaveOpts(FALSE, FALSE, FALSE, FALSE, FALSE),
     minimal |-> SaveOpts(FALSE, FALSE, TRUE, FALSE, FALSE),
     standard |-> SaveOpts(TRUE, TRUE, TRUE, TRUE, FALSE),
     full |-> SaveOpts(TRUE, TRUE, TRUE, TRUE, TRUE)]
SaveKeys == DOMAIN SAVE_OPTIONS[DEFAULT_SAVE_MODE]

\* main.py 107-140: the individual flags, their dest and the constant they store
SaveFlags ==
    {"--no-save-models", "--no-save-features", "--no-save-plots",
     "--no-save-adaptation", "--save-personal-models"}
FlagDest(f) ==
    IF f = "--no-save-models" THEN "save_models"
    ELSE IF f = "--no-save-features" THEN "save_features"
    ELSE IF f = "--no-save-plots" THEN "save_plots"
    ELSE IF f = "--no-save-adaptation" THEN "save_adaptation"
    ELSE "save_personal_models"
\* action='store_false' stores False, action='store_true' stores True
FlagConst(f) == f = "--save-personal-models"
FlagOf(key) == CHOOSE f \in SaveFlags : FlagDest(f) = key
SaveOptionNames == {FlagDest(f) : f \in SaveFlags}

\* main.py 87-145: the namespace parse_args returns.  parser.set_defaults
\* (line 143) gives every key of SAVE_OPTIONS['standard'] a default, so each
\* key is bound to a value that is not None, whatever the command line says;
\* a flag that is given stores its constant.
parse_args(cmd) ==
    [k \in SaveKeys \cup {"save_mode"} |->
        IF k = "save_mode" THEN Given(cmd.save_mode)
        ELSE IF k \in SaveOptionNames /\ FlagOf(k) \in cmd.flags
        THEN Given(FlagConst(FlagOf(k)))
        ELSE Given(SAVE_OPTIONS["standard"][k])]

\* main.py 221-229: a key of the mode is set only when the namespace lacks it
\* or holds None
apply_save_mode(ns) ==
    LET mode == SAVE_OPTIONS[ns["save_mode"][1]] IN
    [k \in DOMAIN ns \cup DOMAIN mode |->
        IF k \in DOMAIN mode /\ (k \notin DOMAIN ns \/ ns[k] = Absent)
        THEN Given(mode[k])
        ELSE ns[k]]

\* main.py 256-263 and framework.py 79-81: the options the framework keeps
FrameworkSaveOptions(ns) ==
    LET given == [save_models |-> ns["save_models"][1],
                  save_features |-> ns["save_features"][1],
                  save_plots |-> ns["save_plots"][1],
                  save_results |-> TRUE,
                  save_adaptation |-> ns["save_adaptation"][1],
                  save_personal_models |-> ns["save_personal_models"][1]]
    IN  [k \in SaveKeys |->
            IF k \in DOMAIN given THEN given[k]
            ELSE SAVE_OPTIONS[DEFAULT_SAVE_MODE][k]]

Targets == {"arousal", "valence"}
NoFramework ==
    [save_options |-> SAVE_OPTIONS[DEFAULT_SAVE_MODE], method |-> NoneVal,
     bound |-> {}, saved |-> {}, stored |-> {}, ret |-> "pending"]
SaveIdle ==
    [save_mode |-> "idle", flags |-> {}, loaded |-> FALSE, common |-> FALSE,
     target |-> "arousal", method |-> NoneVal]
SaveInputs ==
    [save_mode : SAVE_MODE_OPTIONS, flags : SUBSET SaveFlags, loaded : BOOLEAN,
     common : BOOLEAN, target : Targets, method : {NoneVal, "ensemble"}]

\* main.py 235
ParseArgs ==
    /\ savepc = "argv"
    /\ args' = parse_args(argv)
    /\ savepc' = "parsed"
    /\ UNCHANGED <<argv, fw, balVars, thrVars, trainVars, alnVars, swVars>>

\* main.py 238
ApplySaveMode ==
    /\ savepc = "parsed"
    /\ args' = apply_save_mode(args)
    /\ savepc' = "applied"
    /\ UNCHANGED <<argv, fw, balVars, thrVars, trainVars, alnVars, swVars>>

\* main.py 252-264: CrossDatasetFramework(..., save_options={...})
CreateFramework ==
    /\ savepc = "applied"
    /\ fw' = [NoFramework EXCEPT !.save_options = FrameworkSaveOptions(args)]
    /\ savepc' = "created"
    /\ UNCHANGED <<argv, args, balVars, thrVars, trainVars, alnVars, swVars>>

\* framework.py 339: adaptation data is saved for a method other than 'none'
SavesAdaptation(method, options) ==
    Truthy(method) /\ method # "none" /\ options["save_adaptation"]

\* framework.py 291-404: the guards, the feature mapping, the training and
\* the files written after it
TrainModels ==
    /\ savepc = "created"
    /\ IF ~argv.loaded \/ ~argv.common
       THEN /\ fw' = [fw EXCEPT !.ret = NoneVal,
                                !.bound = IF argv.loaded
                                          THEN {"wesad_features", "kemocon_features"}
                                          ELSE {}]
            /\ savepc' = "returned"
       ELSE LET method == IF argv.method = NoneVal THEN DEFAULT_ADAPTATION_METHOD
                          ELSE argv.method
                o == fw.save_options
            IN  /\ fw' = [fw EXCEPT
                    !.method = method,
                    !.bound = {"wesad_features", "kemocon_features", "wesad_X",
                               "wesad_y", "kemocon_X", "kemocon_y", "models"},
                    !.saved =
                        (IF o["save_features"] THEN {"feature_mapping"} ELSE {})
                        \cup (IF SavesAdaptation(method, o) THEN {"adaptation"}
                              ELSE {})
                        \cup (IF o["save_models"] THEN {"models"} ELSE {})
                        \cup (IF o["save_models"] /\ o["save_personal_models"]
                              THEN {"component_models"} ELSE {})]
                /\ savepc' = "trained"
    /\ UNCHANGED <<argv, args, balVars, thrVars, trainVars, alnVars, swVars>>

\* framework.py 408-462: evaluation and the result files, written always
EvaluateAndReport ==
    /\ savepc = "trained"
    /\ fw' = [fw EXCEPT !.bound = @ \cup {"evaluation", "metrics"},
                        !.saved = @ \cup {"metrics_summary", "classification",
                                          "confusion"}]
    /\ savepc' = "reported"
    /\ UNCHANGED <<argv, args, balVars, thrVars, trainVars, alnVars, swVars>>

\* framework.py 465-498: every name below is assigned inside the if only
Visualize ==
    /\ savepc = "reported"
    /\ IF fw.save_options["save_plots"]
       THEN fw' = [fw EXCEPT
                !.bound = @ \cup {"cm_path", "pr_path", "dist_path", "w2k_model",
                                  "importance_df", "imp_path"},
                !.saved = @ \cup {"plots", "feature_importance"}]
       ELSE fw' = fw
    /\ savepc' = "visualized"
    /\ UNCHANGED <<argv, args, balVars, thrVars, trainVars, alnVars, swVars>>

\* framework.py 499-517: self.arousal_models / self.valence_models
StoreModels ==
    /\ savepc = "visualized"
    /\ fw' = [fw EXCEPT !.stored = @ \cup {argv.target}]
    /\ savepc' = "stored"
    /\ UNCHANGED <<argv, args, balVars, thrVars, trainVars, alnVars, swVars>>

\* framework.py 520-528: the names the return statement reads
ReturnedNames ==
    {"models", "evaluation", "wesad_features", "kemocon_features", "importance_df"}
ReturnResults ==
    /\ savepc = "stored"
    /\ fw' = [fw EXCEPT !.ret = IF ReturnedNames \subseteq fw.bound THEN "bundle"
                                ELSE "UnboundLocalError"]
    /\ savepc' = "returned"
    /\ UNCHANGED <<argv, args, balVars, thrVars, trainVars, alnVars, swVars>>

(***************************************************************************)
(* models/balancing.py: create_sample_weights                              *)
(***************************************************************************)
\* lines 172-176: weight_dict = {i: len(y) / (len(class_counts) * count)}
\* over the slots of np.bincount(y); an empty slot divides by zero, which
\* numpy answers with inf and a warning
WeightDict(c) ==
    [i \in 1..BincountLen(c) |-> <<Count(c), BincountLen(c) * c[i]>>]

\* lines 179-182: weights = [weight_dict[label] for label in y], kept per
\* class as the number of samples and the weight each of them receives
create_sample_weights(c) ==
    [n |-> Count(c), n_classes |-> BincountLen(c), weight_dict |-> WeightDict(c),
     weights |-> [i \in {j \in 1..2 : c[j] > 0} |->
                     [samples |-> c[i], weight |-> WeightDict(c)[i]]]]

\* the total weight the samples of class i receive
ClassTotal(r, i) ==
    <<r.weights[i].samples * r.weights[i].weight[1], r.weights[i].weight[2]>>
RECURSIVE TotalOver(_, _)
TotalOver(r, classes) ==
    IF classes = {} THEN FracOfInt(0)
    ELSE LET i == CHOOSE j \in classes : TRUE
         IN  FracAdd(ClassTotal(r, i), TotalOver(r, classes \ {i}))
\* np.sum(weights)
TotalWeight(r) == TotalOver(r, DOMAIN r.weights)

SwIdle == <<0, 0>>
SwNoCall == [n |-> -1, n_classes |-> 0, weight_dict |-> <<>>, weights |-> <<>>]
SwInputs == ((0..MaxCount) \X (0..MaxCount)) \ {SwIdle}

CallCreateSampleWeights ==
    /\ swArgs # SwIdle
    /\ swRet = SwNoCall
    /\ swRet' = create_sample_weights(swArgs)
    /\ UNCHANGED <<swArgs, balVars, thrVars, trainVars, alnVars, saveVars>>

(***************************************************************************)
(* Initial states.                                                         *)
(***************************************************************************)
\* label vectors the trainer is run on: one imbalanced, one balanced
TrainLabelCounts == {<<MaxCount, 1>>, <<MaxCount, MaxCount>>}
TrainOracles == [smote : BOOLEAN, pca : BOOLEAN, coral : BOOLEAN]

Selectors(e) ==
    IF e = "cli" THEN CliChoices
    ELSE IF e = "framework" THEN CliChoices \cup {NoneVal}
    ELSE CliChoices \cup {NoneVal, "bogus"}
EntryPc(e) ==
    IF e = "cli" THEN "main" ELSE IF e = "framework" THEN "framework"
    ELSE "bidirectional"

BalIdleInit == balArgs = BalIdle /\ balRet = NoCall
AlnIdleInit == alnArgs = AlnIdle /\ alnRet = AlnNoCall
SaveIdleInit ==
    argv = SaveIdle /\ args = <<>> /\ fw = NoFramework /\ savepc = "idle"
SwIdleInit == swArgs = SwIdle /\ swRet = SwNoCall
ThrIdleInit ==
    /\ thrArgs = ThrIdle
    /\ thrIdx = 0
    /\ best_score = ZeroScore
    /\ best_threshold = INITIAL_BEST_THRESHOLD
TrainIdleInit ==
    /\ entry = "idle"
    /\ selector = NoneVal
    /\ adaptation_method = NoneVal
    /\ mainpc = "idle"
    /\ labels = [ds \in Datasets |-> <<0, 0>>]
    /\ oracle = [d \in Directions |-> [smote |-> FALSE, pca |-> FALSE, coral |-> FALSE]]
    /\ pc = [d \in Directions |-> "idle"]
    /\ loc = [d \in Directions |-> NoLocals]
    /\ heap = [id \in InputObjects |-> id]
    /\ calls = [d \in Directions |-> <<>>]
    /\ reads = [d \in Directions |-> {}]
    /\ writes = [d \in Directions |-> {}]
    /\ out = [d \in Directions |-> NoBundle]
    /\ fits = [d \in Directions |-> <<>>]
    /\ evals = <<>>

TrainInit(entries) ==
    /\ entry \in entries
    /\ selector \in Selectors(entry)
    /\ adaptation_method = selector
    /\ mainpc = EntryPc(entry)
    /\ labels \in [Datasets -> TrainLabelCounts]
    /\ oracle \in [Directions -> TrainOracles]
    /\ pc = [d \in Directions |-> "start"]
    /\ loc = [d \in Directions |-> NoLocals]
    /\ heap = [id \in InputObjects |-> id]
    /\ calls = [d \in Directions |-> <<>>]
    /\ reads = [d \in Directions |-> {}]
    /\ writes = [d \in Directions |-> {}]
    /\ out = [d \in Directions |-> NoBundle]
    /\ fits = [d \in Directions |-> <<>>]
    /\ evals = <<>>

\* the program: CLI, framework or direct call, the two directions in turn
Init == TrainInit({"cli", "framework", "direct"}) /\ BalIdleInit /\ ThrIdleInit
        /\ AlnIdleInit /\ SaveIdleInit /\ SwIdleInit
Next ==
    \/ Main
    \/ FrameworkTrain
    \/ \E d \in Directions : Balance(d)
    \/ \E d \in Directions : FitTransform(d)
    \/ \E d \in Directions : TransformTarget(d)
    \/ \E d \in Directions : Adapt(d)
    \/ \E d \in Directions : FitEnsemble(d)
    \/ \E d \in Directions : RefitGB(d)
    \/ \E d \in Directions : Return(d)
    \/ ReturnModels
    \/ \E d \in Directions : EvaluateModel(d)
    \/ \E d \in Directions : PredictWithModel(d)
Spec == Init /\ [][Next]_vars

\* the two trainers called directly, each by its own worker
InitConc == TrainInit({"workers"}) /\ BalIdleInit /\ ThrIdleInit /\ AlnIdleInit /\ SaveIdleInit /\ SwIdleInit
NextConc ==
    \/ \E d \in Directions : Balance(d)
    \/ \E d \in Directions : FitTransform(d)
    \/ \E d \in Directions : TransformTarget(d)
    \/ \E d \in Directions : Adapt(d)
    \/ \E d \in Directions : FitEnsemble(d)
    \/ \E d \in Directions : RefitGB(d)
    \/ \E d \in Directions : Return(d)
    \/ ReturnModels
SpecConc == InitConc /\ [][NextConc]_vars

\* apply_class_balancing alone, on every label vector, method and outcome
InitBal == balArgs \in BalInputs /\ balRet = NoCall
           /\ ThrIdleInit /\ TrainIdleInit /\ AlnIdleInit /\ SaveIdleInit /\ SwIdleInit
NextBal == CallApplyClassBalancing
SpecBal == InitBal /\ [][NextBal]_vars

\* find_optimal_threshold alone, on every label and probability vector
Probabilities == {10, 30, 50, 70, 90}
ThrInputs ==
    UNION {[y_true : [1..n -> {0, 1}], y_prob : [1..n -> Probabilities],
            metric : Metrics] : n \in 1..MaxLen}
InitThr ==
    /\ thrArgs \in ThrInputs
    /\ thrIdx = 0
    /\ best_score = ZeroScore
    /\ best_threshold = INITIAL_BEST_THRESHOLD
    /\ BalIdleInit /\ TrainIdleInit /\ AlnIdleInit /\ SaveIdleInit /\ SwIdleInit
NextThr == ThresholdStep
SpecThr == InitThr /\ [][NextThr]_vars

\* the domain_adaptation routines alone, on every shape, mean and outcome of
\* the library calls
InitAln == alnArgs \in AlnInputs /\ alnRet = AlnNoCall
           /\ BalIdleInit /\ ThrIdleInit /\ TrainIdleInit
           /\ SaveIdleInit /\ SwIdleInit
NextAln ==
    \/ CallCoralTransform
    \/ CallSubspaceAlignment
    \/ CallEnsembleDomainAdaptation
    \/ CallMeasureDomainGap
    \/ CallCalculateCoralImprovement
SpecAln == InitAln /\ [][NextAln]_vars

\* main.py's saving options and train_cross_dataset_models, on every command
\* line and every state of the loaded data
InitSave ==
    /\ argv \in SaveInputs
    /\ args = <<>>
    /\ fw = NoFramework
    /\ savepc = "argv"
    /\ BalIdleInit /\ ThrIdleInit /\ TrainIdleInit /\ AlnIdleInit /\ SwIdleInit
NextSave ==
    \/ ParseArgs
    \/ ApplySaveMode
    \/ CreateFramework
    \/ TrainModels
    \/ EvaluateAndReport
    \/ Visualize
    \/ StoreModels
    \/ ReturnResults
SpecSave == InitSave /\ [][NextSave]_vars

\* create_sample_weights alone, on every non-empty label vector
InitWeights ==
    /\ swArgs \in SwInputs
    /\ swRet = SwNoCall
    /\ BalIdleInit /\ ThrIdleInit /\ TrainIdleInit /\ AlnIdleInit /\ SaveIdleInit
NextWeights == CallCreateSampleWeights
SpecWeights == InitWeights /\ [][NextWeights]_vars

(***************************************************************************)
(* Properties.                                                             *)
(***************************************************************************)
Range(f) == {f[i] : i \in DOMAIN f}
\* the trainer of direction d has run its adaptation dispatch
Dispatched(d) == pc[d] \in {"adapted", "ensemble_fit", "gb_refit", "done"}
\* the trainer of direction d has fit its scaler
ScalerFit(d) == pc[d] \in {"scaler_fit", "scaled"} \/ Dispatched(d)
Val(id) == IF id = NoneVal THEN NoneVal ELSE heap[id]

\* C1: whenever the caller selects the adaptation method "none" (directly,
\* through the framework or through the CLI flag), training calls no
\* alignment routine and the scaler is fit only on the (possibly balanced)
\* source set.
C1_NoneRunsNoAlignment ==
    selector = "none" =>
        \A d \in Directions :
            /\ Range(calls[d]) \cap AlignmentRoutines = {}
            /\ ScalerFit(d) =>
                   heap[loc[d].scaler] = RobustFit(heap[loc[d].X_balanced])

\* the CLI run with --adaptation-method none has trained a direction
C1_CliNoneTrained ==
    /\ entry = "cli"
    /\ selector = "none"
    /\ pc["w2k"] = "done"

\* C2: for each selector in {coral, subspace, ensemble} the trainer of either
\* direction aligns scaled-A onto scaled-B with the aligner of that name and
\* fits the classifier on the aligned features; only none leaves scaled-A
\* unmodified.
C2_SelectorRunsItsAligner ==
    \A d \in Directions :
        Dispatched(d) =>
            LET a == heap[loc[d].X_scaled]
                b == heap[loc[d].T_scaled]
                x == heap[loc[d].X_train]
            IN  /\ adaptation_method = "coral" =>
                       /\ x = coral_transform(a, b, oracle[d].coral)
                       /\ "coral_transform" \in Range(calls[d])
                /\ adaptation_method = "subspace" =>
                       /\ x = subspace_alignment(a, b, oracle[d].pca)
                       /\ "subspace_alignment" \in Range(calls[d])
                /\ adaptation_method = "ensemble" =>
                       /\ x = ensemble_domain_adaptation(a, b, oracle[d]).value
                       /\ "ensemble_domain_adaptation" \in Range(calls[d])
                /\ adaptation_method = "none" => x = a
                /\ pc[d] = "ensemble_fit" =>
                       heap[loc[d].ensemble] = VotingFit(x, heap[loc[d].y_balanced])

BalCalled == balRet # NoCall
\* candidate i raised on the training part of the split
CandidateRaised(i) ==
    FitResampleRaises(Candidates[i], TrainSplit(balArgs.c, balArgs.o.tie),
                      balArgs.o.cand[i] = -1)
\* 'auto' reached the candidate loop: balancing needed, the split succeeded
AutoSelected ==
    /\ BalCalled
    /\ balArgs.method = "auto"
    /\ check_class_imbalance(balArgs.c)
    /\ balRet.ret # "raise"
IndexOf(name) == CHOOSE i \in 1..3 : Candidates[i] = name

\* C4: apply_class_balancing never lets an exception escape, for every label
\* vector and every method including 'auto'; a (X, y) pair is still returned.
C4_NoExceptionEscapes ==
    BalCalled => balRet.ret \in {"X", "full", "cv"}

\* C5: for every binary label vector whose minority/majority ratio is >= 0.7
\* and every method, apply_class_balancing returns exactly the X and y it
\* was given and invokes no resampler.
RatioAtLeastThreshold(c) ==
    /\ Majority(c) > 0
    /\ Minority(c) * CLASS_BALANCE_THRESHOLD_DEN
           >= CLASS_BALANCE_THRESHOLD_NUM * Majority(c)
C5_BalancedInputReturnedAsIs ==
    BalCalled /\ RatioAtLeastThreshold(balArgs.c) =>
        /\ balRet.ret = "X"
        /\ balRet.counts = balArgs.c
        /\ balRet.tried = <<>>
        /\ balRet.full = <<>>

\* a vector at exactly the ratio 0.7 went through 'auto'
C5_BoundaryRatioCalled ==
    /\ BalCalled
    /\ balArgs.method = "auto"
    /\ Minority(balArgs.c) * CLASS_BALANCE_THRESHOLD_DEN
           = CLASS_BALANCE_THRESHOLD_NUM * Majority(balArgs.c)
    /\ Majority(balArgs.c) > 0
    /\ balRet.ret = "X"

\* C6: in 'auto' mode, if every candidate fails during selection, the
\* original (X, y) is returned unchanged and no resampler is applied to the
\* data.
C6_AllCandidatesFailReturnsOriginal ==
    AutoSelected /\ (\A i \in 1..3 : CandidateRaised(i)) =>
        /\ balRet.ret = "X"
        /\ balRet.counts = balArgs.c
        /\ balRet.full = <<>>

\* C7: on every path through apply_class_balancing the returned pair has at
\* least as many samples as the input.
C7_NeverFewerSamples ==
    BalCalled /\ balRet.ret # "raise" => Count(balRet.counts) >= Count(balArgs.c)

\* C8: in 'auto' mode the selected strategy has a validation F1 >= that of
\* every other candidate that did not raise; a candidate that raises is
\* skipped and the remaining candidates are still evaluated; a strategy is
\* selected whenever at least one candidate did not raise.
C8_SelectsBestNonRaising ==
    AutoSelected =>
        /\ balRet.tried = Candidates
        /\ balRet.selected # NoneVal =>
               /\ ~CandidateRaised(IndexOf(balRet.selected))
               /\ \A i \in 1..3 :
                      ~CandidateRaised(i) =>
                          balArgs.o.cand[IndexOf(balRet.selected)] >= balArgs.o.cand[i]
        /\ (\E i \in 1..3 : ~CandidateRaised(i)) => balRet.selected # NoneVal

\* find_optimal_threshold has scanned the whole grid and returns
ThrReturned == thrArgs # ThrIdle /\ thrIdx = Len(DECISION_THRESHOLDS)

\* C9: for every y_true, y_prob and metric, the threshold returned by
\* find_optimal_threshold is a member of the grid {0.2, 0.25, ..., 0.8} and
\* the score returned with it is the score at that threshold and is >= the
\* score of the metric at every other grid point.
C9_ReturnedThresholdIsBest ==
    ThrReturned =>
        /\ best_threshold \in Range(DECISION_THRESHOLDS)
        /\ ScoreGe(best_score, ScoreAt(thrArgs, best_threshold))
        /\ ScoreGe(ScoreAt(thrArgs, best_threshold), best_score)
        /\ \A t \in Range(DECISION_THRESHOLDS) :
               ScoreGe(best_score, ScoreAt(thrArgs, t))

\* a search whose best score is reached only late in the grid, with lower
\* non-zero scores before it
C9_LateThresholdWins ==
    /\ ThrReturned
    /\ thrArgs.metric = "f1"
    /\ best_threshold > INITIAL_BEST_THRESHOLD
    /\ ScoreGt(ScoreAt(thrArgs, DECISION_THRESHOLDS[1]), ZeroScore)
    /\ ScoreGt(best_score, ScoreAt(thrArgs, DECISION_THRESHOLDS[1]))

\* what one direction returns when it runs alone, from the inputs
AloneBalance(d) ==
    apply_class_balancing(labels[Source(d)], CLASS_BALANCE_METHOD, TrainerBalOracle(d))
AloneX(d) ==
    IF AloneBalance(d).ret = "X" THEN InputX(Source(d))
    ELSE Resampled(AloneBalance(d).by, InputX(Source(d)))
AloneY(d) ==
    IF AloneBalance(d).ret = "X" THEN InputY(Source(d))
    ELSE Resampled(AloneBalance(d).by, InputY(Source(d)))
AloneScaler(d) == RobustFit(AloneX(d))
AloneScaledA(d) == Transform(AloneScaler(d), AloneX(d))
AloneScaledB(d) == Transform(AloneScaler(d), InputX(Target(d)))
AloneAdapted(d) ==
    IF Dispatch(adaptation_method) = "ensemble"
    THEN ensemble_domain_adaptation(AloneScaledA(d), AloneScaledB(d), oracle[d]).value
    ELSE AloneScaledA(d)
AloneBundle(d) ==
    [model |-> GBRefit(VotingFit(AloneAdapted(d), AloneY(d)), AloneAdapted(d),
                       AloneY(d), SampleWeights(AloneY(d))),
     scaler |-> AloneScaler(d),
     adaptation_method |-> adaptation_method,
     gap_info |-> IF Dispatch(adaptation_method) = "ensemble"
                  THEN measure_domain_gap(AloneScaledA(d), AloneScaledB(d),
                                          AloneAdapted(d))
                  ELSE NoneVal,
     adapted_features |-> AloneAdapted(d),
     original_features |-> AloneScaledA(d),
     target_features |-> AloneScaledB(d),
     class_distribution |-> AloneBalance(d).counts,
     original_distribution |-> labels[Source(d)]]
\* the values of the bundle a direction returned
BundleValues(d) ==
    [model |-> Val(out[d].model),
     scaler |-> Val(out[d].scaler),
     adaptation_method |-> out[d].adaptation_method,
     gap_info |-> Val(out[d].gap_info),
     adapted_features |-> Val(out[d].adapted_features),
     original_features |-> Val(out[d].original_features),
     target_features |-> Val(out[d].target_features),
     class_distribution |-> out[d].class_distribution,
     original_distribution |-> out[d].original_distribution]
\* the objects of the bundle a direction returned
BundleObjects(d) ==
    {out[d].model, out[d].scaler, out[d].gap_info, out[d].adapted_features,
     out[d].original_features, out[d].target_features} \ {NoneVal}

\* C10: in every interleaving of the steps of the two directions run as two
\* workers, each direction returns the same model, scaler and info bundle as
\* when run alone, neither writes to an object the other reads or writes,
\* and the two returned bundles are disjoint objects.
C10_DirectionsShareNoMutableState ==
    \A d \in Directions :
        /\ writes[d] \cap (reads[Other(d)] \cup writes[Other(d)]) = {}
        /\ writes[d] \cap InputObjects = {}
        /\ pc[d] = "done" => BundleValues(d) = AloneBundle(d)
        /\ pc[d] = "done" /\ pc[Other(d)] = "done" =>
               BundleObjects(d) \cap BundleObjects(Other(d)) = {}

\* both workers are in the middle of training at once, each with its scaler
\* fit and its target not yet transformed, on data that was resampled
C10_BothDirectionsInFlight ==
    /\ entry = "workers"
    /\ \A d \in Directions :
           /\ pc[d] = "scaler_fit"
           /\ loc[d].X_balanced = Obj(d, "X_balanced")

\* C11: after training has returned, in every sequence of evaluation and
\* prediction calls each direction's scaler keeps the fitted state it had
\* at the end of training (it is applied, never refit), and every call
\* pairs a direction's model with that same direction's scaler.
C11_ScalerAppliedNeverRefit ==
    /\ \A d \in Directions :
           pc[d] = "done" => heap[out[d].scaler] = AloneScaler(d)
    /\ \A i \in DOMAIN evals :
           /\ evals[i].model = out[evals[i].direction].model
           /\ evals[i].scaler = out[evals[i].direction].scaler
           /\ evals[i].scaler # out[Other(evals[i].direction)].scaler
           /\ evals[i].y_prob =
                  PredictProba(AloneBundle(evals[i].direction).model,
                               Transform(AloneScaler(evals[i].direction), evals[i].X))

\* both directions were evaluated and predictions were served for both
C11_EvaluatedAndPredicted ==
    /\ Len(evals) = Cardinality(Directions) + MaxPredictions
    /\ \A d \in Directions :
           \E i \in DOMAIN evals :
               evals[i].op = "predict_with_model" /\ evals[i].direction = d

\* the fits a direction performs, in order
FitOrder ==
    <<[member |-> "rf", weighted |-> FALSE], [member |-> "gb", weighted |-> FALSE],
      [member |-> "svm", weighted |-> FALSE], [member |-> "gb", weighted |-> TRUE]>>

\* C12: in each direction the boosted-tree member is fit twice, first in the
\* combined voting fit without sample weights and then alone with the
\* per-sample weights; the bagged-tree and kernel members are fit once,
\* never weighted; the returned ensemble holds the weighted second fit.
C12_BoostedTreeRefitWithWeights ==
    \A d \in Directions :
        /\ \E n \in 0..Len(FitOrder) : fits[d] = SubSeq(FitOrder, 1, n)
        /\ pc[d] \in {"gb_refit", "done"} => fits[d] = FitOrder
        /\ pc[d] = "ensemble_fit" => fits[d] = SubSeq(FitOrder, 1, 3)
        /\ pc[d] = "done" =>
               Val(out[d].model) =
                   GBRefit(VotingFit(AloneAdapted(d), AloneY(d)), AloneAdapted(d),
                           AloneY(d), SampleWeights(AloneY(d)))

\* a direction returned after its weighted refit, on resampled data
C12_ReturnedAfterRefit ==
    \E d \in Directions :
        /\ pc[d] = "done"
        /\ Len(fits[d]) = Len(FitOrder)
        /\ loc[d].X_balanced = Obj(d, "X_balanced")

\* a domain_adaptation routine has been called and has ended
AlnCalled(routine) == alnArgs.routine = routine /\ alnRet.path # "pending"
Aligners == {"coral_transform", "subspace_alignment", "ensemble_domain_adaptation"}

\* C13: coral_transform and subspace_alignment never raise and return the
\* unmodified source when the square root, the inverse or PCA fails; in the
\* ensemble a failing subspace or CORAL step is replaced by the source,
\* which enters the blend at the weight of that method.
C13_AlignersReturnSourceOnFailure ==
    /\ AlnCalled("coral_transform") =>
           /\ ~alnRet.raised
           /\ CoralRaises(alnArgs.src, alnArgs.tgt, alnArgs.o) =>
                  alnRet.mat = alnArgs.src
    /\ AlnCalled("subspace_alignment") =>
           /\ ~alnRet.raised
           /\ PcaRaises(alnRet.k, alnArgs.o) => alnRet.mat = alnArgs.src
    /\ AlnCalled("ensemble_domain_adaptation") /\ alnRet.path = "blend" =>
           /\ PcaRaises(alnRet.k, alnArgs.o) => alnRet.terms[1] = alnArgs.src
           /\ CoralRaises(alnArgs.src, alnArgs.tgt, alnArgs.o) =>
                  alnRet.terms[2] = alnArgs.src
           /\ alnArgs.weights # Absent =>
                  \A i \in 1..3 : alnRet.used[i][1] = alnArgs.weights[i]

\* the ensemble blended although both PCA and the square root failed
C13_BothStepsFailedInBlend ==
    /\ AlnCalled("ensemble_domain_adaptation")
    /\ alnRet.path = "blend"
    /\ alnArgs.o.pca /\ alnArgs.o.sqrtm
    /\ alnArgs.weights = <<8, 1, 1>>

\* C14: whenever the combination step of ensemble_domain_adaptation raises,
\* whichever statement raised (the fit of the scaler on the target and the
\* weight normalisation included), the function returns the rescale-only
\* output and does not raise.
C14_CombinationFailureGivesRescale ==
    AlnCalled("ensemble_domain_adaptation") =>
        /\ ~alnRet.raised
        /\ ScalerFitRaises(alnArgs.tgt, alnArgs.o) \/ Len(alnArgs.weights) \in 1..2 =>
               /\ alnRet.path = "rescale"
               /\ alnRet.mat = Rescale_m(alnArgs.src, alnArgs.tgt)

\* C15: for every source of shape (n_src, d) and target of shape (n_tgt, d)
\* the output of each aligner has shape (n_src, d), on the success path and
\* on every fallback path.
C15_OutputHasSourceShape ==
    \A r \in Aligners :
        AlnCalled(r) /\ ~alnRet.raised =>
            /\ alnRet.mat.rows = alnArgs.src.rows
            /\ alnRet.mat.cols = alnArgs.src.cols

\* subspace alignment succeeded with fewer components than features
C15_SubspaceProjectedBack ==
    /\ AlnCalled("subspace_alignment")
    /\ alnRet.path = "success"
    /\ alnRet.k > 0 /\ alnRet.k < alnArgs.src.cols

\* C16: for every weight triple given to the ensemble, the default or any
\* override, the three weights used in the blend sum to 1.
C16_UsedWeightsSumToOne ==
    AlnCalled("ensemble_domain_adaptation") /\ alnRet.path = "blend" =>
        /\ \A i \in 1..3 : alnRet.used[i][2] # 0
        /\ alnRet.used[1][1] + alnRet.used[2][1] + alnRet.used[3][1]
               = alnRet.used[1][2]

\* clamp with the upper bound taking precedence
Clamp(x, lo, hi) ==
    IF hi < lo THEN hi
    ELSE IF x < lo THEN lo ELSE IF x > hi THEN hi ELSE x

\* C17: without a component count, subspace_alignment uses
\* k = clamp(min(d//2+1, min(n_src,n_tgt)-1), min=2,
\*           max=min(d, n_src-1, n_tgt-1)), the upper bound taking precedence.
C17_ComponentCountIsClamped ==
    AlnCalled("subspace_alignment") /\ alnArgs.n_components = Absent =>
        LET d == alnArgs.src.cols
            n_src == alnArgs.src.rows
            n_tgt == alnArgs.tgt.rows
        IN  alnRet.k = Clamp(Min2(d \div 2 + 1, Min2(n_src, n_tgt) - 1),
                             SUBSPACE_MIN_COMPONENTS,
                             Min3(d, n_src - 1, n_tgt - 1))

\* a call without a count where the upper bound is below the minimum
C17_UpperBoundBelowMinimum ==
    /\ AlnCalled("subspace_alignment")
    /\ alnArgs.n_components = Absent
    /\ alnArgs.src.cols >= 2
    /\ alnRet.k < SUBSPACE_MIN_COMPONENTS

GapRoutines == {"measure_domain_gap", "calculate_coral_improvement"}

\* C18: the gap is never negative; the reduction returned by
\* measure_domain_gap and calculate_coral_improvement is
\* 1 - gap_after/gap_before when gap_before > 0 and 0 when gap_before = 0;
\* no division by zero is performed.
C18_GapReductionWellDefined ==
    \A r \in GapRoutines :
        AlnCalled(r) /\ alnArgs.transformed # Absent =>
            /\ alnRet.gap_before >= 0 /\ alnRet.gap_after >= 0
            /\ alnRet.gap_before * alnRet.gap_before =
                   SumSq([i \in 1..2 |-> alnArgs.src.mean[i] - alnArgs.tgt.mean[i]], 2)
            /\ alnRet.gap_reduction[2] # 0
            /\ alnRet.gap_before > 0 =>
                   alnRet.gap_reduction[1] * alnRet.gap_before =
                       (alnRet.gap_before - alnRet.gap_after) * alnRet.gap_reduction[2]
            /\ alnRet.gap_before = 0 => alnRet.gap_reduction[1] = 0
            /\ \A i \in DOMAIN alnRet.divisors : alnRet.divisors[i] # 0

\* the gap before was zero and the gap after was not
C18_ZeroGapBefore ==
    \E r \in GapRoutines :
        /\ AlnCalled(r)
        /\ alnArgs.transformed # Absent
        /\ alnRet.gap_before = 0
        /\ alnRet.gap_after > 0

\* C19: no operation of the pipeline mutates a feature matrix it received,
\* and every transformation (class balancer, scaling, aligner) returns a new
\* matrix object, not its input object, on the success path and on every
\* fallback path.
C19_EveryTransformationReturnsNewMatrix ==
    \A d \in Directions :
        /\ writes[d] \cap InputObjects = {}
        /\ loc[d].X_balanced # NoneVal => loc[d].X_balanced # InputX(Source(d))
        /\ loc[d].X_scaled # NoneVal => loc[d].X_scaled # loc[d].X_balanced
        /\ loc[d].T_scaled # NoneVal => loc[d].T_scaled # InputX(Target(d))
        /\ loc[d].adapted # NoneVal => loc[d].adapted # loc[d].X_scaled

\* squared Euclidean distance between two per-feature means
SqDist(a, b, n) == SumSq([i \in 1..n |-> a[i] - b[i]], n)
\* coral_transform was called on a source whose mean differs from the target's
CoralOnShiftedSource ==
    /\ AlnCalled("coral_transform")
    /\ alnArgs.src.cols = alnArgs.tgt.cols
    /\ Mean(alnArgs.src) # Mean(alnArgs.tgt)

\* C20 as stated: whenever the source mean differs from the target mean, the
\* mean of coral_transform's output is closer (Euclidean) to the target mean
\* than the unaligned source mean is.
C20_OutputMeanAlwaysCloser ==
    CoralOnShiftedSource =>
        SqDist(Mean(alnRet.mat), Mean(alnArgs.tgt), alnArgs.src.cols)
            < SqDist(Mean(alnArgs.src), Mean(alnArgs.tgt), alnArgs.src.cols)

\* C20 amended: whenever the source mean differs from the target mean and
\* coral_transform succeeds, the mean of its output equals the target mean
\* and so is closer to it than the source mean; when it falls back, the
\* output is the source itself, whose mean is as far from the target mean
\* as before.
C20_OutputMeanCloserOnSuccess ==
    CoralOnShiftedSource =>
        /\ alnRet.path = "success" =>
               /\ Mean(alnRet.mat) = Mean(alnArgs.tgt)
               /\ SqDist(Mean(alnRet.mat), Mean(alnArgs.tgt), alnArgs.src.cols)
                      < SqDist(Mean(alnArgs.src), Mean(alnArgs.tgt), alnArgs.src.cols)
        /\ alnRet.path # "success" =>
               /\ alnRet.mat = alnArgs.src
               /\ SqDist(Mean(alnRet.mat), Mean(alnArgs.tgt), alnArgs.src.cols)
                      = SqDist(Mean(alnArgs.src), Mean(alnArgs.tgt), alnArgs.src.cols)

\* coral_transform succeeded on a shifted source with a transform that is
\* not the identity
C20_ShiftedSourceAligned ==
    /\ CoralOnShiftedSource
    /\ alnRet.path = "success"
    /\ alnArgs.o.b = 2
    /\ alnArgs.src.cols > 1

\* C21: for every --save-mode M, after apply_save_mode each of the five save
\* options that no explicit flag sets equals SAVE_OPTIONS[M][option], and an
\* option whose flag is given holds the flag's value.
C21_SaveModeSetsUnflaggedOptions ==
    savepc \notin {"idle", "argv", "parsed"} =>
        \A k \in SaveOptionNames :
            args[k] = Given(IF FlagOf(k) \in argv.flags
                            THEN FlagConst(FlagOf(k))
                            ELSE SAVE_OPTIONS[argv.save_mode][k])

\* --save-mode none without any flag, after apply_save_mode
C21_ModeNoneApplied ==
    /\ savepc = "applied"
    /\ argv.save_mode = "none"
    /\ argv.flags = {}

\* C26: the sample weights are n / (n_classes * count[class]) per sample, so
\* that every class present receives the total weight n / n_classes and the
\* weights sum to n.
C26_WeightsBalanceClasses ==
    swRet # SwNoCall =>
        /\ \A i \in DOMAIN swRet.weights :
               /\ swRet.weights[i].weight = <<swRet.n, swRet.n_classes * swArgs[i]>>
               /\ FracEq(ClassTotal(swRet, i), <<swRet.n, swRet.n_classes>>)
        /\ FracEq(TotalWeight(swRet), FracOfInt(swRet.n))

\* the weights of a label vector that holds only label 1
C26_OnlyLabelOneWeighted ==
    /\ swRet # SwNoCall
    /\ swArgs[1] = 0
    /\ swArgs[2] > 0

\* C29: with both datasets loaded and common features found,
\* train_cross_dataset_models returns its result bundle and stores the models
\* for the target, whatever the save options are.
C29_TrainingReturnsBundle ==
    (savepc = "returned" /\ argv.loaded /\ argv.common) =>
        /\ fw.ret = "bundle"
        /\ argv.target \in fw.stored

\* a training run that reached its return statement with save_plots false
C29_ReturnedWithoutPlots ==
    /\ savepc = "returned"
    /\ argv.loaded /\ argv.common
    /\ ~fw.save_options["save_plots"]
    /\ argv.target \in fw.stored

\* C30: for a label vector with a single class present, check_class_imbalance
\* reports that no balancing is needed and apply_class_balancing returns its
\* input without invoking a resampler.
C30_SingleClassNeedsNoBalancing ==
    (BalCalled /\ NClasses(balArgs.c) = 1) =>
        /\ ~check_class_imbalance(balArgs.c)
        /\ balRet.ret = "X"
        /\ balRet.counts = balArgs.c
        /\ balRet.tried = <<>>
        /\ balRet.full = <<>>

\* a label vector of ones only, on which a resampler was invoked
C30_ResamplerInvokedOnOnes ==
    /\ BalCalled
    /\ balArgs.c[1] = 0 /\ balArgs.c[2] > 0
    /\ balRet.full # <<>>

\* a local of direction d has been assigned
Bound(d, name) == loc[d][name] # NoneVal
\* what the steps of direction d have produced so far, each from the result of
\* the step before it
StepsInOrder(d) ==
    /\ Bound(d, "scaler") =>
           /\ Bound(d, "X_balanced")
           /\ heap[loc[d].X_balanced] = AloneX(d)
           /\ heap[loc[d].scaler] = RobustFit(heap[loc[d].X_balanced])
           /\ heap[loc[d].X_scaled] =
                  Transform(heap[loc[d].scaler], heap[loc[d].X_balanced])
    /\ Bound(d, "T_scaled") =>
           /\ Bound(d, "scaler")
           /\ heap[loc[d].T_scaled] =
                  Transform(heap[loc[d].scaler], heap[InputX(Target(d))])
    /\ (calls[d] # <<>> \/ Bound(d, "X_train")) => Bound(d, "T_scaled")
    /\ fits[d] # <<>> =>
           /\ Bound(d, "X_train")
           /\ Dispatch(adaptation_method) = "ensemble" =>
                  /\ calls[d] # <<>>
                  /\ heap[loc[d].X_train] =
                         ensemble_domain_adaptation(heap[loc[d].X_scaled],
                                                    heap[loc[d].T_scaled],
                                                    oracle[d]).value
           /\ heap[loc[d].ensemble] \in
                  {VotingFit(heap[loc[d].X_train], heap[loc[d].y_balanced]),
                   GBRefit(VotingFit(heap[loc[d].X_train], heap[loc[d].y_balanced]),
                           heap[loc[d].X_train], heap[loc[d].y_balanced],
                           heap[loc[d].sample_weights])}
\* a scaler that has been fit keeps its fitted state in every later step
ScalerFitOnce(d) ==
    NewScaler(d) \in DOMAIN heap =>
        /\ NewScaler(d) \in DOMAIN heap'
        /\ heap'[NewScaler(d)] = heap[NewScaler(d)]

\* C22: in each direction A->B the steps occur in the order balance A, fit
\* the scaler, transform, align (if selected), fit the ensemble; the scaler is
\* fit exactly once, after balancing, on the balanced A only, and B's matrix
\* is only transformed by that scaler, never used to fit it.
C22_StepsInOrderScalerFitOnce ==
    /\ [](\A d \in Directions : StepsInOrder(d))
    /\ [][\A d \in Directions : ScalerFitOnce(d)]_vars

\* a direction that balanced by resampling, aligned and fit its ensemble
C22_ResampledAlignedAndFit ==
    \E d \in Directions :
        /\ pc[d] = "done"
        /\ loc[d].X_balanced = Obj(d, "X_balanced")
        /\ calls[d] # <<>>

\* the bundle direction d returns on the label vectors lab, the other inputs
\* being those of the run
TrainedFrom(d, lab) ==
    LET b == apply_class_balancing(lab[Source(d)], CLASS_BALANCE_METHOD,
                                   TrainerBalOracle(d))
        x == IF b.ret = "X" THEN InputX(Source(d))
             ELSE Resampled(b.by, InputX(Source(d)))
        y == IF b.ret = "X" THEN InputY(Source(d))
             ELSE Resampled(b.by, InputY(Source(d)))
        scaler == RobustFit(x)
        scaledA == Transform(scaler, x)
        scaledB == Transform(scaler, InputX(Target(d)))
        aligned == Dispatch(adaptation_method) = "ensemble"
        adapted == IF aligned
                   THEN ensemble_domain_adaptation(scaledA, scaledB, oracle[d]).value
                   ELSE scaledA
    IN  [model |-> GBRefit(VotingFit(adapted, y), adapted, y, SampleWeights(y)),
         scaler |-> scaler,
         adaptation_method |-> adaptation_method,
         gap_info |-> IF aligned THEN measure_domain_gap(scaledA, scaledB, adapted)
                      ELSE NoneVal,
         adapted_features |-> adapted,
         original_features |-> scaledA,
         target_features |-> scaledB,
         class_distribution |-> b.counts,
         original_distribution |-> lab[Source(d)]]

\* C25: training in direction A->B never reads B's labels: the bundle it
\* returns is the one it returns for every other label vector of B, and B's
\* labels are read only by the evaluator.
C25_TrainingIgnoresTargetLabels ==
    /\ \A d \in Directions :
           /\ InputY(Target(d)) \notin reads[d]
           /\ pc[d] = "done" =>
                  \A alt \in TrainLabelCounts :
                      BundleValues(d) =
                          TrainedFrom(d, [labels EXCEPT ![Target(d)] = alt])
    /\ \A i \in DOMAIN evals :
           evals[i].y_true =
               IF evals[i].op = "evaluate_model"
               THEN InputY(Target(evals[i].direction))
               ELSE NoneVal

\* both directions trained and evaluated on datasets whose label vectors differ
C25_EvaluatedOnDifferentLabels ==
    /\ mainpc = "evaluated"
    /\ labels["wesad"] # labels["kemocon"]
    /\ \A d \in Directions : pc[d] = "done"

\* C28: in every branch of the trainer (ensemble, unknown method name, falsy
\* method) info['adapted_features'] is the matrix the ensemble was fit on,
\* info['original_features'] is the scaled source, and the gap fields are
\* not None exactly when an alignment routine was run.
C28_InfoMatchesTraining ==
    \A d \in Directions :
        pc[d] = "done" =>
            /\ out[d].adapted_features = loc[d].X_train
            /\ Val(out[d].model) =
                   GBRefit(VotingFit(Val(out[d].adapted_features),
                                     heap[loc[d].y_balanced]),
                           Val(out[d].adapted_features), heap[loc[d].y_balanced],
                           heap[loc[d].sample_weights])
            /\ out[d].original_features = loc[d].X_scaled
            /\ Val(out[d].original_features) = AloneScaledA(d)
            /\ (out[d].gap_info # NoneVal) <=> (calls[d] # <<>>)

\* a direction that returned after the branch of an unknown method name
C28_UnknownMethodReturned ==
    \E d \in Directions :
        /\ pc[d] = "done"
        /\ Dispatch(adaptation_method) = "unknown"

\* C23: the Subspace step inside Ensemble Alignment uses, for the same
\* matrices, the component count of standalone Subspace Alignment,
\* k = clamp(min(d//2 + 1, min(n_src, n_tgt) - 1), min = 2,
\*           max = min(d, n_src - 1, n_tgt - 1)).
C23_EnsembleUsesStandaloneCount ==
    AlnCalled("ensemble_domain_adaptation") =>
        /\ alnRet.k = NComponents(alnArgs.src, alnArgs.tgt, Absent)
        /\ alnRet.k =
               Clamp(Min2(alnArgs.src.cols \div 2 + 1,
                          Min2(alnArgs.src.rows, alnArgs.tgt.rows) - 1),
                     SUBSPACE_MIN_COMPONENTS,
                     Min3(alnArgs.src.cols, alnArgs.src.rows - 1,
                          alnArgs.tgt.rows - 1))

\* the ensemble blended its three terms on 4 x 4 matrices
C23_EnsembleOnFourByFour ==
    /\ AlnCalled("ensemble_domain_adaptation")
    /\ alnRet.path = "blend"
    /\ alnArgs.src.rows = 4 /\ alnArgs.tgt.rows = 4 /\ alnArgs.src.cols = 4

\* C24: the matrix coral_transform applies to the centred source is the
\* product of exactly two factors, Csrc^(-1/2) followed by Ctgt^(1/2), and the
\* result is source_centered . transform + target_mean.
C24_TransformHasTwoFactors ==
    (AlnCalled("coral_transform") /\ alnRet.path = "success") =>
        /\ alnRet.factors =
               <<source_cov_inv_sqrt(alnArgs.o), target_cov_sqrt(alnArgs.o)>>
        /\ FracEq(alnRet.transform,
                  FracMul(source_cov_inv_sqrt(alnArgs.o), target_cov_sqrt(alnArgs.o)))
        /\ \A i \in 1..alnArgs.tgt.cols :
               Mean(alnRet.mat)[i] =
                   DotEntry(Mean(Center(alnArgs.src))[i], alnRet.transform)
                       + Mean(alnArgs.tgt)[i]

\* coral_transform succeeded on a source whose covariance is not the identity
C24_SourceCovarianceNotIdentity ==
    /\ AlnCalled("coral_transform")
    /\ alnRet.path = "success"
    /\ alnArgs.o.a = 2

\* the grid thresholds whose score is the largest of the grid
BestThresholds ==
    {t \in Range(DECISION_THRESHOLDS) :
        \A u \in Range(DECISION_THRESHOLDS) :
            ScoreGe(ScoreAt(thrArgs, t), ScoreAt(thrArgs, u))}
AllScoresZero ==
    \A t \in Range(DECISION_THRESHOLDS) : ~ScoreGt(ScoreAt(thrArgs, t), ZeroScore)

\* C27: find_optimal_threshold breaks ties by grid order: it returns the
\* smallest grid threshold attaining the maximum score, and when every grid
\* point scores 0 it returns the threshold 0.5 with the score 0.
C27_TiesGoToSmallestThreshold ==
    ThrReturned =>
        IF AllScoresZero
        THEN best_threshold = INITIAL_BEST_THRESHOLD /\ best_score = ZeroScore
        ELSE /\ best_threshold \in BestThresholds
             /\ \A t \in BestThresholds : best_threshold <= t
             /\ best_score = ScoreAt(thrArgs, best_threshold)

\* a search in which several grid thresholds attain the largest score, which
\* is not zero
C27_SeveralThresholdsTie ==
    /\ ThrReturned
    /\ ~AllScoresZero
    /\ \E t \in BestThresholds : t > best_threshold
====
